---- MODULE Spec2Model ----
(***************************************************************************)
(* Chain-of-custody pipeline of vibe_research: scripts/ingest.py (manifest *)
(* + lockfile + detached signature) and scripts/parse.py (gated parse).    *)
(*                                                                         *)
(* Files are modelled by their content.  SHA-256 is modelled as a          *)
(* collision-free digest: the digest of a content is a tagged value that   *)
(* is equal to another digest exactly when the contents are equal.         *)
(* Every separate file access of the code is a separate step: a file      *)
(* write is two steps, open(path, "w") that leaves the file empty and      *)
(* json.dump + close that gives it its content.                            *)
(***************************************************************************)
EXTENDS FiniteSets, Integers, Sequences

\* ---------------------------------------------------------------- bounds
\* Number of ingest runs started in one behaviour when runs follow one another.
MaxRuns == 3
\* Number of ingest runs started in one behaviour when runs may overlap.
MaxOverlapping == 2
\* Number of commands (ingest runs, parse runs) and out-of-band modifications
\* in one behaviour when they are mixed.
MaxCommands == 4
\* Longest list of PII matches a scan returns.
MaxMatches == 3
\* The start positions of the matches in a scanned text are 0..MaxStart.
MaxStart == 1
\* A drafted response has at most MaxSentences sentences (one longer response
\* is listed by name).
MaxSentences == 2

\* ------------------------------------------------------ program constants
\* pii_sniff.py: number of MEDIUM hits that triggers quarantine.
MEDIUM_THRESHOLD == 3

\* ------------------------------------------------------------ universe
\* The two run slots: two invocations of ingest.py that may overlap.
Runs == {"r1", "r2"}
\* Documents (path == file name in the model) and the versions of their bytes.
Files == {"a.pdf", "b.pdf"}
Contents == {"v1", "v2"}
GitCommits == {"c0ffee"}

\* ------------------------------------------------------------- hashing
\* hashlib.sha256 over the bytes of a document.
get_file_sha256(content) == [alg |-> "sha256", of |-> content]

\* json.dump(manifest, f, indent=2): the bytes of the manifest file.
JsonDump(entries) == [layout |-> "indent2", entries |-> entries]
\* open(path, "w") before anything is written: a file of no bytes, on which
\* json.load(f) raises JSONDecodeError.
EmptyBytes == [layout |-> "empty", entries |-> <<>>]
\* json.load(f): the list the bytes parse to, whatever their layout.
JsonLoad(bytes) == bytes.entries

NoEntry == [filename |-> "", sha256 |-> get_file_sha256(""), ingested_at |-> 0,
            source_path |-> "", git_commit |-> ""]

\* SHA-256 of the manifest file as written on disk.
get_manifest_sha256(bytes) == [alg |-> "sha256", of |-> bytes]

NoBytes == JsonDump(<<>>)
NoDigest == [alg |-> "none", of |-> NoBytes]

VARIABLES
    \* --- the store on disk
    manifest,     \* data/manifest.json: [exists, bytes]
    lock,         \* data/manifest.lock: [state in absent|ok|corrupt, sha]
    sig,          \* data/manifest.json.sig: [exists, over]
    asc,          \* data/manifest.json.asc: [exists, over]
    fileContent,  \* bytes of each document
    fileLoc,      \* where each document is: "raw" | "quarantine" | "missing"
    parsed,       \* data/parsed/<stem>.json of each document
    \* --- the processes
    run,          \* the ingest.py invocations, one record of locals per slot
    parse,        \* the parse.py invocation: its locals and what it has done
    parses,       \* parse runs started so far
    sniff,        \* the pii_sniff.py invocation: its locals and its exit code
    response,     \* the drafted response handed to validate_output.py
    val,          \* the validate_output.py invocations, one record per slot
    audit,        \* data/audit_log.csv: [exists, rows]
    \* --- environment and history
    clock,        \* source of ingested_at
    started,      \* ingest runs started so far
    completed,    \* ingest runs that ran to the end of main
    tampers,      \* out-of-band modifications so far
    ingested,     \* entries in the order in which they were first written
    lastWritten,  \* the manifest bytes as ingest.py last wrote them
    persisted     \* <<position, entry>> pairs ever written to the manifest

storeVars == <<manifest, lock, sig, asc>>
fileVars == <<fileContent, fileLoc>>
histVars == <<clock, started, completed, tampers, ingested, lastWritten, persisted>>
parseVars == <<parse, parsed, parses>>
valVars == <<response, val, audit>>
toolVars == <<sniff, valVars>>
vars == <<storeVars, fileVars, run, parseVars, toolVars, histVars>>

Store == [manifest |-> manifest, lock |-> lock, sig |-> sig, asc |-> asc]
NoStore == [manifest |-> [exists |-> FALSE, bytes |-> NoBytes],
            lock |-> [state |-> "absent", sha |-> NoDigest],
            sig |-> [exists |-> FALSE, over |-> NoDigest],
            asc |-> [exists |-> FALSE, over |-> NoDigest]]

\* The locals of an ingest run.  recorded: recorded_hash of
\* check_lockfile_integrity; digest: main's digest of the incoming file; list:
\* main's in-memory manifest; lockDigest: write_lockfile's digest; dupWarn: the
\* duplicate warning was printed; before: the store as the run found it;
\* edited: the manifest the run found was not as ingest.py last wrote it.
NoRun == [pc |-> "idle", outcome |-> "none", file |-> "a.pdf", sign |-> FALSE,
          before |-> NoStore, edited |-> FALSE,
          recorded |-> NoDigest, digest |-> get_file_sha256(""), list |-> <<>>,
          lockDigest |-> NoDigest, dupWarn |-> FALSE, exit |-> -1]

\* The locals of a parse run, with what it saw and did.  sigStatus: main's
\* sig_status; entry: the manifest entry selected; digest: actual_digest.
\* trust: the state the trust gate classified the manifest as; seen: what the
\* trust gate found; gates: the gates evaluated so far, in order, with their
\* verdicts; wrote: this run wrote its output file; lockMismatch: the manifest
\* did not match the lockfile when the run started; risk: what assess_risk
\* returned for the matches of the document; rejected: the output the schema
\* check refused.
NoRisk == [quarantine |-> FALSE, reason |-> "unassessed"]
NoOutput == [exists |-> FALSE]
NoParse == [pc |-> "idle", outcome |-> "none", file |-> "a.pdf", mode |-> "research",
            sigStatus |-> "none", entry |-> NoEntry, digest |-> get_file_sha256(""),
            trust |-> "none",
            seen |-> [artifact |-> FALSE, gpg |-> FALSE, verifies |-> FALSE],
            gates |-> <<>>, wrote |-> FALSE, lockMismatch |-> FALSE,
            risk |-> NoRisk, exit |-> -1, rejected |-> NoOutput]

\* The locals of a pii_sniff.py run.  text: the file named on the command
\* line; matches: what scan_text returned; quarantine, reason: what assess_risk
\* returned; exit: the exit code.
NoText == [exists |-> FALSE, hits |-> {}]
NoSniff == [pc |-> "idle", text |-> NoText, matches |-> <<>>,
            quarantine |-> FALSE, reason |-> "unassessed", exit |-> -1]

\* A response that was never written, the citation density of a text without
\* claim sentences (None), and the audit log before its first row.
NoResponse == [exists |-> FALSE, text |-> <<>>]
NoDensity == [num |-> 0, den |-> 0]
NoAudit == [exists |-> FALSE, rows |-> <<>>]

\* The locals of a validate_output.py run, as main names them, with its exit
\* code.  threshold is in hundredths.  density_result holds what
\* compute_citation_density returned.  override: --threshold was given;
\* scored: the checks were computed; rowAt: where in the audit log the row of
\* the run is; lockMismatch: the manifest did not match the lockfile when the
\* run started; write_header, timestamp: the locals of append_audit_log.
NoVal == [pc |-> "idle", exit |-> -1, override |-> FALSE, scored |-> FALSE, rowAt |-> 0,
          mode |-> "RESEARCH", draft |-> FALSE,
          threshold |-> 0, response_text |-> <<>>,
          known_sha256s |-> {}, known_filenames |-> {},
          verified |-> <<>>, unverified |-> <<>>,
          density_result |-> [factual_count |-> 0, cited_count |-> 0,
                              naked_claims |-> <<>>, citation_density |-> NoDensity,
                              non_factual_count |-> 0, total_sentences |-> 0],
          density_pass |-> FALSE, citations_pass |-> FALSE, overall_pass |-> FALSE,
          write_header |-> FALSE, timestamp |-> 0, lockMismatch |-> FALSE]

Terminal == {"idle", "done", "failed"}
AllIdle == \A r \in Runs : run[r].pc \in Terminal
\* No command is running.
Quiet == AllIdle /\ parse.pc \in Terminal

Init ==
    /\ manifest = [exists |-> FALSE, bytes |-> NoBytes]
    /\ lock = [state |-> "absent", sha |-> NoDigest]
    /\ sig = [exists |-> FALSE, over |-> NoDigest]
    /\ asc = [exists |-> FALSE, over |-> NoDigest]
    /\ fileContent = [f \in Files |-> "v1"]
    /\ fileLoc \in {loc \in [Files -> {"raw", "missing"}] : loc["a.pdf"] = "raw"}
    /\ run = [r \in Runs |-> NoRun]
    /\ parse = NoParse
    /\ parsed = [f \in Files |-> NoOutput]
    /\ parses = 0
    /\ sniff = NoSniff
    /\ response = NoResponse
    /\ val = [r \in Runs |-> NoVal]
    /\ audit = NoAudit
    /\ clock = 0
    /\ started = 0
    /\ completed = 0
    /\ tampers = 0
    /\ ingested = <<>>
    /\ lastWritten = NoBytes
    /\ persisted = {}

\* ------------------------------------------------------------ ingest.py

\* The exit code of an ingest run: every sys.exit of ingest.py is
\* sys.exit(1), the end of main is 0; a killed run returns no code of its own.
IngestExitCode(result) ==
    IF result = "ok" THEN 0 ELSE IF result = "killed" THEN -1 ELSE 1

\* The run ends (sys.exit(1), or the end of main): its memory is gone.
Finish(r, how, result) ==
    run' = [run EXCEPT ![r] = [NoRun EXCEPT !.pc = how, !.outcome = result,
                                            !.exit = IngestExitCode(result),
                                            !.file = run[r].file,
                                            !.before = run[r].before,
                                            !.edited = run[r].edited,
                                            !.dupWarn = run[r].dupWarn]]

Goto(r, where) == run' = [run EXCEPT ![r].pc = where]

\* main, argument parsing to the path check: a missing file exits 1.
IngestStart(r, f, sign) ==
    /\ run[r].pc \in Terminal
    /\ started' = started + 1
    /\ run' = [run EXCEPT ![r] =
                 IF fileLoc[f] = "raw"
                   THEN [NoRun EXCEPT !.pc = "check", !.file = f, !.sign = sign,
                                      !.before = Store,
                                      !.edited = manifest.bytes # lastWritten]
                   ELSE [NoRun EXCEPT !.pc = "failed", !.outcome = "FileNotFound",
                                      !.exit = IngestExitCode("FileNotFound"),
                                      !.file = f, !.before = Store,
                                      !.edited = manifest.bytes # lastWritten]]
    /\ UNCHANGED <<toolVars, storeVars, fileVars, parsed, parses, clock, completed, tampers,
                   ingested, lastWritten, persisted>>

\* Step 1: the lockfile is checked only when the manifest exists.
IngestCheckManifestExists(r) ==
    /\ run[r].pc = "check"
    /\ Goto(r, IF manifest.exists THEN "check_lock" ELSE "digest")
    /\ UNCHANGED <<toolVars, storeVars, fileVars, parseVars, histVars>>

\* The mutant takes a missing lockfile for a breach.
IngestCheckLock_AbsentFails(r) ==
    /\ run[r].pc = "check_lock"
    /\ CASE lock.state \in {"absent", "corrupt"} -> Finish(r, "failed", "IntegrityBreach")
         [] OTHER -> run' = [run EXCEPT ![r].pc = "check_hash",
                                        ![r].recorded = lock.sha]
    /\ UNCHANGED <<toolVars, storeVars, fileVars, parseVars, histVars>>
\* check_lockfile_integrity, reading the lockfile: no lockfile is a first run,
\* an unreadable one is a breach, otherwise its manifest_sha256 is kept.
IngestCheckLock(r) ==
    /\ run[r].pc = "check_lock"
    /\ CASE lock.state = "absent" -> Goto(r, "digest")
         [] lock.state = "corrupt" -> Finish(r, "failed", "IntegrityBreach")
         [] OTHER -> run' = [run EXCEPT ![r].pc = "check_hash",
                                        ![r].recorded = lock.sha]
    /\ UNCHANGED <<toolVars, storeVars, fileVars, parseVars, histVars>>

\* check_lockfile_integrity: recorded_hash != actual_hash.
HashMismatch(recorded_hash, actual_hash) == recorded_hash # actual_hash

\* The mutant repairs the lockfile when it finds a mismatch.
IngestCheckHash_Relock(r) ==
    /\ run[r].pc = "check_hash"
    /\ IF HashMismatch(run[r].recorded, get_manifest_sha256(manifest.bytes))
         THEN /\ Finish(r, "failed", "IntegrityBreach")
              /\ lock' = [state |-> "ok", sha |-> get_manifest_sha256(manifest.bytes)]
         ELSE /\ Goto(r, "digest")
              /\ UNCHANGED lock
    /\ UNCHANGED <<toolVars, manifest, sig, asc, fileVars, parseVars, histVars>>
\* check_lockfile_integrity, hashing the manifest and comparing.
IngestCheckHash(r) ==
    /\ run[r].pc = "check_hash"
    /\ IF HashMismatch(run[r].recorded, get_manifest_sha256(manifest.bytes))
         THEN Finish(r, "failed", "IntegrityBreach")
         ELSE Goto(r, "digest")
    /\ UNCHANGED <<toolVars, storeVars, fileVars, parseVars, histVars>>

\* Step 2: SHA-256 of the incoming file.
IngestDigest(r) ==
    /\ run[r].pc = "digest"
    /\ run' = [run EXCEPT ![r].pc = "load",
                          ![r].digest = get_file_sha256(fileContent[run[r].file])]
    /\ UNCHANGED <<toolVars, storeVars, fileVars, parseVars, histVars>>

\* The entry of step 5.
NewEntry(f, d, now, commit) ==
    [filename |-> f, sha256 |-> d, ingested_at |-> now, source_path |-> f,
     git_commit |-> commit]

\* The mutant starts from an empty list whatever is on disk.
LoadManifest_Fresh(m) == <<>>
\* Step 3: load or initialise the manifest.
LoadManifest(m) == IF m.exists THEN JsonLoad(m.bytes) ELSE <<>>

\* The mutant rejects a file whose hash the manifest already holds.
IngestLoad_RejectsDuplicate(r) ==
    /\ run[r].pc = "load"
    /\ \E commit \in GitCommits :
         LET loaded == LoadManifest(manifest)
             entry == NewEntry(run[r].file, run[r].digest, clock + 1, commit)
             duplicate == \E i \in 1..Len(loaded) : loaded[i].sha256 = run[r].digest
         IN run' = [run EXCEPT
                      ![r].pc = IF duplicate THEN "failed" ELSE "write_manifest",
                      ![r].outcome = IF duplicate THEN "DuplicateHash" ELSE "none",
                      ![r].exit = IF duplicate THEN 1 ELSE -1,
                      ![r].dupWarn = duplicate,
                      ![r].list = Append(loaded, entry)]
    /\ clock' = clock + 1
    /\ UNCHANGED <<toolVars, storeVars, fileVars, parseVars, started, completed,
                   tampers, ingested, lastWritten, persisted>>
\* Steps 3 to 5: load the manifest, warn on a duplicate hash, append the entry
\* to the in-memory list.  A manifest file of no bytes makes json.load raise;
\* nothing catches it and the run ends with a traceback, exit status 1.
IngestLoad(r) ==
    /\ run[r].pc = "load"
    /\ IF manifest.exists /\ manifest.bytes = EmptyBytes
         THEN /\ Finish(r, "failed", "JSONDecodeError")
              /\ UNCHANGED clock
         ELSE /\ \E commit \in GitCommits :
                   LET loaded == LoadManifest(manifest)
                       entry == NewEntry(run[r].file, run[r].digest, clock + 1, commit)
                   IN run' = [run EXCEPT
                                ![r].pc = "write_manifest",
                                ![r].dupWarn = \E i \in 1..Len(loaded) :
                                                  loaded[i].sha256 = run[r].digest,
                                ![r].list = Append(loaded, entry)]
              /\ clock' = clock + 1
    /\ UNCHANGED <<toolVars, storeVars, fileVars, parseVars, started, completed,
                   tampers, ingested, lastWritten, persisted>>

\* Step 5, open(manifest_path, "w"): the manifest file is there and holds
\* nothing.
IngestOpenManifest(r) ==
    /\ run[r].pc = "write_manifest"
    /\ manifest' = [exists |-> TRUE, bytes |-> EmptyBytes]
    /\ Goto(r, "dump_manifest")
    /\ UNCHANGED <<toolVars, lock, sig, asc, fileVars, parseVars, histVars>>

\* Step 5, json.dump and the close of the file: the manifest file holds the
\* in-memory list.
IngestWriteManifest(r) ==
    /\ run[r].pc = "dump_manifest"
    /\ manifest' = [exists |-> TRUE, bytes |-> JsonDump(run[r].list)]
    /\ ingested' = Append(ingested, run[r].list[Len(run[r].list)])
    /\ lastWritten' = JsonDump(run[r].list)
    /\ persisted' = persisted \cup {<<i, run[r].list[i]>> : i \in 1..Len(run[r].list)}
    /\ Goto(r, "lock_digest")
    /\ UNCHANGED <<toolVars, lock, sig, asc, fileVars, parseVars, clock, started, completed,
                   tampers>>

\* write_lockfile, first half: hash the manifest on disk.
IngestLockDigest(r) ==
    /\ run[r].pc = "lock_digest"
    /\ run' = [run EXCEPT ![r].pc = "lock_write",
                          ![r].lockDigest = get_manifest_sha256(manifest.bytes)]
    /\ UNCHANGED <<toolVars, storeVars, fileVars, parseVars, histVars>>

\* write_lockfile, open(lock_path, "w"): manifest.lock is there and holds
\* nothing; a reader finds it unreadable.
IngestLockOpen(r) ==
    /\ run[r].pc = "lock_write"
    /\ lock' = [state |-> "corrupt", sha |-> NoDigest]
    /\ Goto(r, "lock_dump")
    /\ UNCHANGED <<toolVars, manifest, sig, asc, fileVars, parseVars, histVars>>

\* The mutant leaves the lockfile as it found it.
IngestLockWrite_Skip(r) ==
    /\ run[r].pc = "lock_dump"
    /\ Goto(r, "sign")
    /\ UNCHANGED <<toolVars, storeVars, fileVars, parseVars, histVars>>
\* write_lockfile, json.dump and the close of the file: manifest.lock holds
\* the digest taken before it was opened.
IngestLockWrite(r) ==
    /\ run[r].pc = "lock_dump"
    /\ lock' = [state |-> "ok", sha |-> run[r].lockDigest]
    /\ Goto(r, "sign")
    /\ UNCHANGED <<toolVars, manifest, sig, asc, fileVars, parseVars, histVars>>

\* gpg --yes --detach-sign --armor manifest.json, no --output: what gpg writes
\* beside the manifest is manifest.json.asc, a signature over the manifest as
\* it is on disk now.
gpg_sign_manifest(m) == [exists |-> TRUE, over |-> get_manifest_sha256(m.bytes)]

\* Step 7: sign when asked to (--sign, or "y" at the prompt) and gpg succeeds;
\* a failure of gpg is a warning only.  manifest.json.sig is not written.
IngestSign(r) ==
    /\ run[r].pc = "sign"
    /\ \E gpgOk \in BOOLEAN :
         asc' = IF run[r].sign /\ gpgOk THEN gpg_sign_manifest(manifest) ELSE asc
    /\ Finish(r, "done", "ok")
    /\ completed' = completed + 1
    /\ UNCHANGED <<toolVars, manifest, lock, sig, fileVars, parseVars, clock, started,
                   tampers, ingested, lastWritten, persisted>>

\* Ordinary process termination in the middle of a run.
Kill(r) ==
    /\ run[r].pc \notin Terminal
    /\ Finish(r, "failed", "killed")
    /\ UNCHANGED <<toolVars, storeVars, fileVars, parseVars, histVars>>

IngestStep(r) ==
    \/ IngestCheckManifestExists(r)
    \/ IngestCheckLock(r)
    \/ IngestCheckHash(r)
    \/ IngestDigest(r)
    \/ IngestLoad(r)
    \/ IngestOpenManifest(r)
    \/ IngestWriteManifest(r)
    \/ IngestLockDigest(r)
    \/ IngestLockOpen(r)
    \/ IngestLockWrite(r)
    \/ IngestSign(r)

\* ------------------------------------------------- ingest runs, one at a time
\* Runs that follow one another all use the first slot.
SeqRuns == {"r1"}

\* The commands and edits so far.
Commands == started + parses + tampers

\* A new command starts when the previous one has ended; the record of the
\* previous command goes with it.
SeqIngestStart(r, f, sign) ==
    /\ Quiet
    /\ Commands < MaxCommands
    /\ started < MaxRuns
    /\ IngestStart(r, f, sign)
    /\ parse' = NoParse

NextSeq ==
    \/ \E r \in SeqRuns, f \in Files, sign \in BOOLEAN : SeqIngestStart(r, f, sign)
    \/ \E r \in Runs : IngestStep(r)

SpecSeq == Init /\ [][NextSeq]_vars

\* --------------------------------------------- ingest runs that may overlap
ConcIngestStart(r, f, sign) ==
    /\ started < MaxOverlapping
    /\ IngestStart(r, f, sign)
    /\ UNCHANGED parse

NextConc ==
    \/ \E r \in Runs, f \in Files, sign \in BOOLEAN : ConcIngestStart(r, f, sign)
    \/ \E r \in Runs : IngestStep(r)
    \/ \E r \in Runs : Kill(r)

\* The store a completed, unsigned ingest of a.pdf leaves behind.
FirstEntry == NewEntry("a.pdf", get_file_sha256("v1"), 1, "c0ffee")

AfterFirstIngest ==
    /\ manifest = [exists |-> TRUE, bytes |-> JsonDump(<<FirstEntry>>)]
    /\ lock = [state |-> "ok", sha |-> get_manifest_sha256(JsonDump(<<FirstEntry>>))]
    /\ sig = [exists |-> FALSE, over |-> NoDigest]
    /\ asc = [exists |-> FALSE, over |-> NoDigest]
    /\ fileContent = [f \in Files |-> "v1"]
    /\ fileLoc = [f \in Files |-> "raw"]
    /\ run = [r \in Runs |-> NoRun]
    /\ parse = NoParse
    /\ parsed = [f \in Files |-> NoOutput]
    /\ parses = 0
    /\ sniff = NoSniff
    /\ response = NoResponse
    /\ val = [r \in Runs |-> NoVal]
    /\ audit = NoAudit
    /\ clock = 1
    /\ started = 0
    /\ completed = 1
    /\ tampers = 0
    /\ ingested = <<FirstEntry>>
    /\ lastWritten = JsonDump(<<FirstEntry>>)
    /\ persisted = {<<1, FirstEntry>>}

\* Overlapping runs start on an empty store or on the store one earlier ingest left.
InitConc == Init \/ AfterFirstIngest

SpecConc == InitConc /\ [][NextConc]_vars

\* ------------------------------------------------------------- parse.py

\* gpg --verify <sig> <manifest>: exit status 0.
GpgVerifies(sigFile, m) ==
    m.exists /\ sigFile.over = get_manifest_sha256(m.bytes)

\* The mutant treats a missing gpg as a failed verification.
check_manifest_signature_UnavailableInvalid(sigFile, m, gpgAvailable, compliance_mode) ==
    IF ~sigFile.exists THEN [state |-> "UNSIGNED", exit |-> compliance_mode]
    ELSE IF ~gpgAvailable THEN [state |-> "INVALID", exit |-> TRUE]
    ELSE IF GpgVerifies(sigFile, m) THEN [state |-> "SIGNED", exit |-> FALSE]
    ELSE [state |-> "INVALID", exit |-> TRUE]
\* The mutant lets an unsigned manifest through in compliance mode.
check_manifest_signature_Lenient(sigFile, m, gpgAvailable, compliance_mode) ==
    IF ~sigFile.exists THEN [state |-> "UNSIGNED", exit |-> FALSE]
    ELSE IF ~gpgAvailable THEN [state |-> "UNSIGNED", exit |-> FALSE]
    ELSE IF GpgVerifies(sigFile, m) THEN [state |-> "SIGNED", exit |-> FALSE]
    ELSE [state |-> "INVALID", exit |-> TRUE]
\* check_manifest_signature: the state of the signature and whether the run
\* exits on it.  No artifact: UNSIGNED, fatal in compliance mode only.  gpg not
\* installed (FileNotFoundError): UNSIGNED is returned.  Otherwise SIGNED when
\* gpg verifies, and exit when it does not.
check_manifest_signature(sigFile, m, gpgAvailable, compliance_mode) ==
    IF ~sigFile.exists THEN [state |-> "UNSIGNED", exit |-> compliance_mode]
    ELSE IF ~gpgAvailable THEN [state |-> "UNSIGNED", exit |-> FALSE]
    ELSE IF GpgVerifies(sigFile, m) THEN [state |-> "SIGNED", exit |-> FALSE]
    ELSE [state |-> "INVALID", exit |-> TRUE]

\* The mutant selects the last matching entry.
find_manifest_entry_Last(list, filename, source_path) ==
    LET hits == {i \in 1..Len(list) :
                    list[i].filename = filename \/ list[i].source_path = source_path}
    IN IF hits = {} THEN 0 ELSE CHOOSE i \in hits : \A j \in hits : i >= j
\* find_manifest_entry: the index of the first entry whose filename or
\* source_path matches, 0 for None.
find_manifest_entry(list, filename, source_path) ==
    LET hits == {i \in 1..Len(list) :
                    list[i].filename = filename \/ list[i].source_path = source_path}
    IN IF hits = {} THEN 0 ELSE CHOOSE i \in hits : \A j \in hits : i <= j

\* The mutant accepts every file.
verify_sha256_Never(actual, expected) == FALSE
\* verify_sha256: TRUE when the run exits on a provenance breach.
verify_sha256(actual, expected) == actual # expected

\* Three detectors of the registry, with their confidence tiers.
Patterns == {[pattern_name |-> "SSN", confidence |-> "HIGH"],
             [pattern_name |-> "PHONE_NUMBER", confidence |-> "MEDIUM"],
             [pattern_name |-> "EMAIL_ADDRESS", confidence |-> "MEDIUM"]}
\* What scan_text can return.
MatchLists == UNION {[1..n -> Patterns] : n \in 0..MaxMatches}

IsHigh(m) == m.confidence = "HIGH"
IsMedium(m) == m.confidence = "MEDIUM"

\* The mutant looks at the MEDIUM matches only.
assess_risk_IgnoresHigh(matches) ==
    LET medium_matches == SelectSeq(matches, IsMedium)
    IN IF Len(medium_matches) >= MEDIUM_THRESHOLD
         THEN [quarantine |-> TRUE, reason |-> "MEDIUM"]
         ELSE [quarantine |-> FALSE, reason |-> "none"]
\* The mutant quarantines above the threshold, not at it.
assess_risk_AboveThreshold(matches) ==
    LET high_matches == SelectSeq(matches, IsHigh)
        medium_matches == SelectSeq(matches, IsMedium)
    IN IF Len(high_matches) > 0 THEN [quarantine |-> TRUE, reason |-> "HIGH"]
       ELSE IF Len(medium_matches) > MEDIUM_THRESHOLD
              THEN [quarantine |-> TRUE, reason |-> "MEDIUM"]
       ELSE [quarantine |-> FALSE, reason |-> "none"]
\* assess_risk: quarantine on any HIGH match, else on MEDIUM_THRESHOLD or more
\* MEDIUM matches.
assess_risk(matches) ==
    LET high_matches == SelectSeq(matches, IsHigh)
        medium_matches == SelectSeq(matches, IsMedium)
    IN IF Len(high_matches) > 0 THEN [quarantine |-> TRUE, reason |-> "HIGH"]
       ELSE IF Len(medium_matches) >= MEDIUM_THRESHOLD
              THEN [quarantine |-> TRUE, reason |-> "MEDIUM"]
       ELSE [quarantine |-> FALSE, reason |-> "none"]

\* Docling documents: whether the document has a body, and the body's children
\* (label, stripped text, stripped caption), nesting flattened.
Child(label, text, caption) == [label |-> label, text |-> text, caption |-> caption]
Docs == {[body |-> FALSE, children |-> <<>>],
         [body |-> TRUE, children |-> <<>>],
         [body |-> TRUE, children |-> <<Child("section_header", "", ""),
                                        Child("text", "Body", "")>>],
         [body |-> TRUE, children |-> <<Child("title", "Intro", ""),
                                        Child("table", "1 2", "")>>],
         [body |-> TRUE, children |-> <<Child("paragraph", "", ""),
                                        Child("picture", "", "Figure 1"),
                                        Child("footnote", "x", "")>>]}

OrUnknown(text) == IF text = "" THEN "UNKNOWN_STRUCTURE" ELSE text

\* A location is the sequence of the labels that " > " joins.
Fallback == [type |-> "text", location |-> <<"UNKNOWN_STRUCTURE">>, content |-> "markdown"]

\* _walk_docling_body from child i on, under the running section label.
RECURSIVE WalkDoclingBody(_, _, _)
WalkDoclingBody(children, i, current_section) ==
    IF i > Len(children) THEN <<>>
    ELSE LET c == children[i]
             section == IF c.label \in {"section_header", "title"}
                          THEN OrUnknown(c.text) ELSE current_section
             els == CASE c.label \in {"section_header", "title"} ->
                           <<[type |-> "section_header", location |-> <<section>>,
                              content |-> c.text]>>
                      [] c.label = "table" ->
                           <<[type |-> "table",
                              location |-> <<current_section, OrUnknown(c.caption)>>,
                              content |-> c.text]>>
                      [] c.label \in {"figure", "picture"} ->
                           <<[type |-> "figure",
                              location |-> <<current_section, OrUnknown(c.caption)>>,
                              content |-> c.caption]>>
                      [] c.label \in {"text", "paragraph", "list_item", "code"} ->
                           <<[type |-> c.label, location |-> <<current_section>>,
                              content |-> c.text]>>
                      [] OTHER -> <<>>
         IN els \o WalkDoclingBody(children, i + 1, section)

\* extract_elements: the walk, or one unstructured block.
extract_elements(doc) ==
    LET elements == IF doc.body
                      THEN WalkDoclingBody(doc.children, 1, "UNKNOWN_STRUCTURE")
                      ELSE <<Fallback>>
    IN IF elements # <<>> THEN elements ELSE <<Fallback>>

OUTPUT_SCHEMA_VERSION == "1.0"

\* The mutant stamps every output as SIGNED.
build_output_Signed(entry, elements, d, sig_status) ==
    [exists |-> TRUE,
     schema_version |-> OUTPUT_SCHEMA_VERSION,
     provenance |-> [filename |-> entry.filename,
                     sha256 |-> d,
                     ingested_at |-> entry.ingested_at,
                     git_commit |-> entry.git_commit,
                     source_path |-> entry.source_path,
                     verified |-> TRUE,
                     manifest_signature |-> "SIGNED"],
     elements |-> elements]
\* build_output (parsed_at, a timestamp, is left out).
build_output(entry, elements, d, sig_status) ==
    [exists |-> TRUE,
     schema_version |-> OUTPUT_SCHEMA_VERSION,
     provenance |-> [filename |-> entry.filename,
                     sha256 |-> d,
                     ingested_at |-> entry.ingested_at,
                     git_commit |-> entry.git_commit,
                     source_path |-> entry.source_path,
                     verified |-> TRUE,
                     manifest_signature |-> sig_status],
     elements |-> elements]

\* The mutant accepts an element whose location is the empty string.
validate_output_schema_AnyLocation(output) ==
    /\ {"schema_version", "provenance", "elements"} \subseteq DOMAIN output
    /\ {"filename", "sha256", "ingested_at", "source_path", "verified",
        "manifest_signature"} \subseteq DOMAIN output.provenance
    /\ \A i \in 1..Len(output.elements) :
         /\ "location" \in DOMAIN output.elements[i]
         /\ "content" \in DOMAIN output.elements[i]
\* validate_output_schema: TRUE when no ValueError is raised.
validate_output_schema(output) ==
    /\ {"schema_version", "provenance", "elements"} \subseteq DOMAIN output
    /\ {"filename", "sha256", "ingested_at", "source_path", "verified",
        "manifest_signature"} \subseteq DOMAIN output.provenance
    /\ \A i \in 1..Len(output.elements) :
         /\ "location" \in DOMAIN output.elements[i]
         /\ "content" \in DOMAIN output.elements[i]
         /\ output.elements[i].location # <<"">>

\* The gates of a parse run, in the order main evaluates them.
GateOrder == <<"trust", "lookup", "hash", "pii", "schema">>
Gate(name, failed) == [gate |-> name, result |-> IF failed THEN "fail" ELSE "pass"]

\* The manifest on disk does not match what the lockfile records.
StoreMismatch ==
    \/ lock.state = "corrupt"
    \/ lock.state = "ok" /\ HashMismatch(lock.sha, get_manifest_sha256(manifest.bytes))

\* sys.exit(1): the locals are gone, what the run saw and did stays on record.
ParseExit(g, result) ==
    [NoParse EXCEPT !.pc = "failed", !.outcome = result, !.file = parse.file,
                    !.exit = 1,
                    !.mode = parse.mode, !.trust = parse.trust, !.seen = parse.seen,
                    !.sigStatus = parse.sigStatus, !.wrote = parse.wrote,
                    !.lockMismatch = parse.lockMismatch,
                    !.risk = parse.risk,
                    !.gates = Append(parse.gates, g)]

\* An exception nothing catches: a traceback and exit status 1, no gate has
\* given a verdict.
ParseRaise(result) == [ParseExit(Gate("none", TRUE), result) EXCEPT !.gates = parse.gates]

\* main, argument parsing to the path check: a missing file exits 1.
ParseStart(f, mode) ==
    /\ Quiet
    /\ Commands < MaxCommands
    /\ parses' = parses + 1
    /\ run' = [r \in Runs |-> NoRun]
    /\ parse' = IF fileLoc[f] = "raw"
                  THEN [NoParse EXCEPT !.pc = "trust", !.file = f, !.mode = mode,
                                       !.lockMismatch = StoreMismatch]
                  ELSE [NoParse EXCEPT !.pc = "failed", !.outcome = "FileNotFound",
                                       !.exit = 1,
                                       !.file = f, !.mode = mode,
                                       !.lockMismatch = StoreMismatch]
    /\ UNCHANGED <<toolVars, storeVars, fileVars, parsed, histVars>>

\* Step 0: the signature check; gpg is installed or it is not.
ParseTrust ==
    /\ parse.pc = "trust"
    /\ \E gpgAvailable \in BOOLEAN :
         LET res == check_manifest_signature(sig, manifest, gpgAvailable,
                                             parse.mode = "compliance")
             saw == [artifact |-> sig.exists, gpg |-> gpgAvailable,
                     verifies |-> GpgVerifies(sig, manifest)]
             p == [parse EXCEPT !.trust = res.state, !.seen = saw]
         IN parse' = IF res.exit
                       THEN [ParseExit(Gate("trust", TRUE), "TrustFailure")
                               EXCEPT !.trust = res.state, !.seen = saw]
                       ELSE [p EXCEPT !.pc = "lookup", !.sigStatus = res.state,
                                      !.gates = Append(parse.gates, Gate("trust", FALSE))]
    /\ UNCHANGED <<toolVars, storeVars, fileVars, run, parsed, parses, histVars>>

\* Steps 1 and 2: load the manifest and select the entry of the file.
ParseLookup ==
    /\ parse.pc = "lookup"
    /\ LET list == IF manifest.exists THEN JsonLoad(manifest.bytes) ELSE <<>>
           i == find_manifest_entry(list, parse.file, parse.file)
       IN parse' = IF ~manifest.exists
                     THEN ParseExit(Gate("lookup", TRUE), "ManifestNotFound")
                   ELSE IF manifest.bytes = EmptyBytes
                     THEN ParseRaise("JSONDecodeError")
                   ELSE IF i = 0
                     THEN ParseExit(Gate("lookup", TRUE), "NotInManifest")
                   ELSE [parse EXCEPT !.pc = "hash", !.entry = list[i],
                                      !.gates = Append(parse.gates, Gate("lookup", FALSE))]
    /\ UNCHANGED <<toolVars, storeVars, fileVars, run, parsed, parses, histVars>>

\* The mutant reports the breach and goes on.
ParseVerify_NoExit ==
    /\ parse.pc = "hash"
    /\ LET actual_digest == get_file_sha256(fileContent[parse.file])
       IN parse' = [parse EXCEPT
                      !.pc = "pii", !.digest = actual_digest,
                      !.gates = Append(parse.gates,
                                       Gate("hash", verify_sha256(actual_digest,
                                                                  parse.entry.sha256)))]
    /\ UNCHANGED <<toolVars, storeVars, fileVars, run, parsed, parses, histVars>>
\* Step 3: the file is hashed and compared with the entry.
ParseVerify ==
    /\ parse.pc = "hash"
    /\ LET actual_digest == get_file_sha256(fileContent[parse.file])
       IN parse' = IF verify_sha256(actual_digest, parse.entry.sha256)
                     THEN ParseExit(Gate("hash", TRUE), "ProvenanceBreach")
                     ELSE [parse EXCEPT !.pc = "pii", !.digest = actual_digest,
                                        !.gates = Append(parse.gates, Gate("hash", FALSE))]
    /\ UNCHANGED <<toolVars, storeVars, fileVars, run, parsed, parses, histVars>>

\* The mutant also strikes the quarantined file from the manifest.
ParsePii_StrikesEntry ==
    /\ parse.pc = "pii"
    /\ \/ /\ parse' = ParseRaise("ConversionError")
          /\ UNCHANGED <<fileLoc, manifest>>
       \/ \E pii_matches \in MatchLists :
         LET risk == assess_risk(pii_matches)
         IN IF risk.quarantine
              THEN /\ fileLoc' = [fileLoc EXCEPT ![parse.file] = "quarantine"]
                   /\ manifest' = [manifest EXCEPT !.bytes.entries =
                                     SelectSeq(@, LAMBDA e : e.filename # parse.file)]
                   /\ parse' = [ParseExit(Gate("pii", TRUE), "PrivacyRisk")
                                  EXCEPT !.risk = risk]
              ELSE /\ parse' = [parse EXCEPT !.pc = "schema",
                                   !.risk = risk,
                                   !.gates = Append(parse.gates, Gate("pii", FALSE))]
                   /\ UNCHANGED <<fileLoc, manifest>>
    /\ UNCHANGED <<toolVars, lock, sig, asc, fileContent, run, parsed, parses, histVars>>
\* The mutant halts on quarantine and leaves the file where it is.
ParsePii_NoMove ==
    /\ parse.pc = "pii"
    /\ \/ parse' = ParseRaise("ConversionError")
       \/ \E pii_matches \in MatchLists :
         LET risk == assess_risk(pii_matches)
         IN parse' = IF risk.quarantine
                       THEN [ParseExit(Gate("pii", TRUE), "PrivacyRisk")
                               EXCEPT !.risk = risk]
                       ELSE [parse EXCEPT !.pc = "schema", !.risk = risk,
                                          !.gates = Append(parse.gates, Gate("pii", FALSE))]
    /\ UNCHANGED <<toolVars, storeVars, fileVars, run, parsed, parses, histVars>>
\* Steps 4 and 4b: conversion, then the PII scan of the text; on quarantine
\* the file is moved and the run halts.  The import of docling or convert()
\* may raise: nothing catches it, the run ends with a traceback and exit
\* status 1, the file where it was and nothing written.
ParsePii ==
    /\ parse.pc = "pii"
    /\ \/ /\ parse' = ParseRaise("ConversionError")
          /\ UNCHANGED fileLoc
       \/ \E pii_matches \in MatchLists :
         LET risk == assess_risk(pii_matches)
         IN IF risk.quarantine
              THEN /\ fileLoc' = [fileLoc EXCEPT ![parse.file] = "quarantine"]
                   /\ parse' = [ParseExit(Gate("pii", TRUE), "PrivacyRisk")
                                  EXCEPT !.risk = risk]
              ELSE /\ parse' = [parse EXCEPT !.pc = "schema",
                                   !.risk = risk,
                                   !.gates = Append(parse.gates, Gate("pii", FALSE))]
                   /\ UNCHANGED fileLoc
    /\ UNCHANGED <<toolVars, storeVars, fileContent, run, parsed, parses, histVars>>

\* Steps 6 and 7 on an assembled output: the schema check, then the write; a
\* ValueError ends the run with nothing written.
WriteOutput(output) ==
    IF validate_output_schema(output)
      THEN /\ parsed' = [parsed EXCEPT ![parse.file] = output]
           /\ parse' = [NoParse EXCEPT
                          !.pc = "done", !.outcome = "ok", !.exit = 0,
                          !.file = parse.file,
                          !.mode = parse.mode, !.trust = parse.trust,
                          !.seen = parse.seen, !.sigStatus = parse.sigStatus,
                          !.lockMismatch = parse.lockMismatch,
                          !.risk = parse.risk,
                          !.wrote = TRUE,
                          !.gates = Append(parse.gates, Gate("schema", FALSE))]
      ELSE /\ parse' = [ParseExit(Gate("schema", TRUE), "SchemaViolation")
                          EXCEPT !.rejected = output]
           /\ UNCHANGED parsed

\* Steps 5 to 7: extract the elements, build the output, validate it, write it.
ParseWrite ==
    /\ parse.pc = "schema"
    /\ \E doc \in Docs :
         WriteOutput(build_output(parse.entry, extract_elements(doc), parse.digest,
                                  parse.sigStatus))
    /\ UNCHANGED <<toolVars, storeVars, fileVars, run, parses, histVars>>

\* ------------------------------- the schema check on every assembled output
\* A dict without one of its keys.
Without(dict, key) == [k \in DOMAIN dict \ {key} |-> dict[k]]

\* The outputs validate_output_schema may be given: the output as build_output
\* assembles it, and the same with a top-level field, a provenance field or a
\* field of an element left out, or with the location of an element empty.
AssembledOutputs(output) ==
    LET n == Len(output.elements)
    IN {output,
        Without(output, "schema_version"),
        Without(output, "provenance"),
        Without(output, "elements"),
        [output EXCEPT !.provenance = Without(@, "sha256")],
        [output EXCEPT !.provenance = Without(@, "git_commit")],
        [output EXCEPT !.elements[1] = Without(@, "location")],
        [output EXCEPT !.elements[n] = Without(@, "content")],
        [output EXCEPT !.elements[1].location = <<"">>],
        [output EXCEPT !.elements[n].location = <<"">>]}

\* Steps 6 and 7 of main on any of these outputs.
SchemaCheck ==
    /\ parse.pc = "schema"
    /\ \E doc \in Docs :
         \E output \in AssembledOutputs(build_output(parse.entry, extract_elements(doc),
                                                     parse.digest, parse.sigStatus)) :
             WriteOutput(output)
    /\ UNCHANGED <<toolVars, storeVars, fileVars, run, parses, histVars>>
ParseStep ==
    \/ ParseTrust
    \/ ParseLookup
    \/ ParseVerify
    \/ ParsePii
    \/ ParseWrite

\* Parse runs on the store one ingest left, the schema check given every
\* assembled output.
NextSchema ==
    \/ \E f \in Files, mode \in {"research", "compliance"} : ParseStart(f, mode)
    \/ ParseTrust
    \/ ParseLookup
    \/ ParseVerify
    \/ ParsePii
    \/ SchemaCheck

SpecSchema == AfterFirstIngest /\ [][NextSchema]_vars

\* ---------------------------------------------------------- pii_sniff.py

\* _PATTERNS: the detectors in the order of the registry.
Registry == <<[pattern_name |-> "SSN", confidence |-> "HIGH"],
              [pattern_name |-> "PHONE_NUMBER", confidence |-> "MEDIUM"],
              [pattern_name |-> "EMAIL_ADDRESS", confidence |-> "MEDIUM"]>>

\* A text is what the detectors find in it: at most MaxMatches hits, each the
\* index of a detector and the position where its match starts.
Hits == (1..Len(Registry)) \X (0..MaxStart)
Texts == {[exists |-> TRUE, hits |-> h] : h \in {x \in SUBSET Hits : Cardinality(x) <= MaxMatches}}

PiiMatch(i, start) == [pattern_name |-> Registry[i].pattern_name,
                       confidence |-> Registry[i].confidence, start |-> start]

\* pattern.finditer(text): the matches of detector i, left to right.
RECURSIVE FindIter(_, _, _)
FindIter(hits, i, from) ==
    IF from > MaxStart THEN <<>>
    ELSE (IF <<i, from>> \in hits THEN <<PiiMatch(i, from)>> ELSE <<>>)
         \o FindIter(hits, i, from + 1)

\* The loop of scan_text over the registry, from detector i on.
RECURSIVE Collect(_, _)
Collect(hits, i) ==
    IF i > Len(Registry) THEN <<>>
    ELSE FindIter(hits, i, 0) \o Collect(hits, i + 1)

\* list.sort(key=start): a stable sort, here by insertion from the left.
RECURSIVE SortByStart(_)
SortByStart(ms) ==
    IF ms = <<>> THEN <<>>
    ELSE LET m == ms[Len(ms)]
             sorted == SortByStart(SubSeq(ms, 1, Len(ms) - 1))
             k == Cardinality({j \in 1..Len(sorted) : sorted[j].start <= m.start})
         IN SubSeq(sorted, 1, k) \o <<m>> \o SubSeq(sorted, k + 1, Len(sorted))

\* The mutant walks the registry from its end, so that matches with one start
\* come out in the reverse order of their detectors.
scan_text_ReverseRegistry(text) ==
    LET ms == Collect(text.hits, 1)
    IN SortByStart([i \in 1..Len(ms) |-> ms[Len(ms) + 1 - i]])
scan_text(text) == SortByStart(Collect(text.hits, 1))

\* main of pii_sniff.py up to the existence check: a missing file exits 2.
SniffStart(text) ==
    /\ sniff.pc \in Terminal
    /\ sniff' = IF text.exists
                  THEN [NoSniff EXCEPT !.pc = "read", !.text = text]
                  ELSE [NoSniff EXCEPT !.pc = "failed", !.exit = 2]
    /\ UNCHANGED <<valVars, storeVars, fileVars, run, parseVars, histVars>>

\* The file is read, scanned and assessed, and the run exits 1 on quarantine.
SniffRun ==
    /\ sniff.pc = "read"
    /\ LET matches == scan_text(sniff.text)
           risk == assess_risk(matches)
       IN sniff' = [sniff EXCEPT !.pc = "done", !.matches = matches,
                                 !.quarantine = risk.quarantine,
                                 !.reason = risk.reason,
                                 !.exit = IF risk.quarantine THEN 1 ELSE 0]
    /\ UNCHANGED <<valVars, storeVars, fileVars, run, parseVars, histVars>>

NextSniff ==
    \/ \E text \in Texts \cup {NoText} : SniffStart(text)
    \/ SniffRun

SpecSniff == Init /\ [][NextSniff]_vars

\* ------------------------------------------------------ validate_output.py

\* Default thresholds, in hundredths.
RESEARCH_THRESHOLD == 70
COMPLIANCE_THRESHOLD == 100

\* A text is a sequence of tokens.  kind says which patterns the token
\* matches: a lower-case word matches none, "capital" matches _CAPITAL_WORD,
\* "number" _NUMBER_PATTERN, "comparative" _COMPARATIVE_PATTERN, "sha256"
\* SHA256_PATTERN (value names the content whose digest the token spells),
\* "filename" FILENAME_PATTERN.  stop: the token ends with . ! or ? and white
\* space follows.
Token(kind, value) == [kind |-> kind, value |-> value, stop |-> FALSE]
Word == Token("word", "costs")
Proper == Token("capital", "Illinois")
The == Token("capital", "The")
Number == Token("number", "40")
Comparative == Token("comparative", "higher")
HashOf(content) == Token("sha256", content)
FileName(name) == Token("filename", name)

\* Some of _FUNCTION_WORDS.
FunctionWords == {"The", "In", "Monday"}

\* The sentences responses are made of: no signal; a capitalised first word
\* and a function word; a number, uncited; a proper noun with the digest of an
\* ingested content; a number with a digest nothing has; a comparative with a
\* file name only; no signal and the name of a file that was not ingested.
Sentences == {<<Word>>,
              <<Proper, Word, The>>,
              <<Word, Number>>,
              <<Word, Proper, HashOf("v1")>>,
              <<Word, Number, HashOf("fabricated")>>,
              <<Word, Comparative, FileName("a.pdf")>>,
              <<Word, FileName("b.pdf")>>}

\* A sentence as it stands in a text: its last token carries the full stop.
Terminated(sentence) ==
    [i \in 1..Len(sentence) |->
        IF i = Len(sentence) THEN [sentence[i] EXCEPT !.stop = TRUE] ELSE sentence[i]]

RECURSIVE JoinSentences(_)
JoinSentences(ss) ==
    IF ss = <<>> THEN <<>> ELSE Terminated(Head(ss)) \o JoinSentences(Tail(ss))

\* Six cited claim sentences and one uncited claim sentence.
SixOfSeven ==
    JoinSentences([i \in 1..7 |-> IF i = 4 THEN <<Word, Number>>
                                  ELSE <<Word, Proper, HashOf("v1")>>])

\* One uncited sentence with four numbers and two proper nouns.
FourNumbers ==
    JoinSentences(<<<<Word, Number, Proper, Token("number", "2023"),
                     Token("number", "five"), Token("capital", "Medicaid"),
                     Token("number", "7")>>>>)

Responses ==
    {JoinSentences(ss) : ss \in UNION {[1..n -> Sentences] : n \in 0..MaxSentences}}
    \cup {SixOfSeven, FourNumbers}

\* SENTENCE_SPLITTER.split with the empty pieces dropped: the text from token
\* i on, cut after every stop; acc is the sentence being read.
RECURSIVE SplitSentences(_, _, _)
SplitSentences(text, i, acc) ==
    IF i > Len(text) THEN (IF acc = <<>> THEN <<>> ELSE <<acc>>)
    ELSE IF text[i].stop
           THEN <<Append(acc, text[i])>> \o SplitSentences(text, i + 1, <<>>)
           ELSE SplitSentences(text, i + 1, Append(acc, text[i]))

\* load_manifest: the two sets it returns.
known_sha256s_of(list) == {list[i].sha256 : i \in 1..Len(list)}
known_filenames_of(list) == {list[i].filename : i \in 1..Len(list)}

extract_sha256s(text) ==
    {get_file_sha256(text[i].value) : i \in {j \in 1..Len(text) : text[j].kind = "sha256"}}
extract_filenames(text) ==
    {text[i].value : i \in {j \in 1..Len(text) : text[j].kind = "filename"}}

\* sorted(): the contents and the file names in ascending order (the order of
\* the digests is the order of the contents they stand for).
ContentOrder == <<"fabricated", "v1", "v2">>
NameOrder == <<"a.pdf", "b.pdf">>
SortedHashes(hs) ==
    LET in(c) == get_file_sha256(c) \in hs
    IN [i \in 1..Len(SelectSeq(ContentOrder, in)) |->
            get_file_sha256(SelectSeq(ContentOrder, in)[i])]
SortedNames(ns) == LET in(n) == n \in ns IN SelectSeq(NameOrder, in)

Citation(type, value, status) == [type |-> type, value |-> value, status |-> status]

\* The hashes or the file names of a text in the order of their first
\* appearance.
RECURSIVE InTextOrder(_, _, _, _)
InTextOrder(text, kind, i, seen) ==
    IF i > Len(text) THEN <<>>
    ELSE IF text[i].kind = kind /\ text[i].value \notin seen
      THEN <<IF kind = "sha256" THEN get_file_sha256(text[i].value) ELSE text[i].value>>
           \o InTextOrder(text, kind, i + 1, seen \cup {text[i].value})
      ELSE InTextOrder(text, kind, i + 1, seen)

\* The mutant reports the citations in the order of the text.
verify_citations_InTextOrder(response_text, known_sha256s, known_filenames) ==
    LET hs == InTextOrder(response_text, "sha256", 1, {})
        ns == InTextOrder(response_text, "filename", 1, {})
        okH(h) == h \in known_sha256s
        badH(h) == h \notin known_sha256s
        okN(n) == n \in known_filenames
        badN(n) == n \notin known_filenames
        cite(xs, type, status) == [i \in 1..Len(xs) |-> Citation(type, xs[i], status)]
    IN [verified |-> cite(SelectSeq(hs, okH), "sha256", "VERIFIED")
                     \o cite(SelectSeq(ns, okN), "filename", "VERIFIED"),
        unverified |-> cite(SelectSeq(hs, badH), "sha256", "UNVERIFIED")
                       \o cite(SelectSeq(ns, badN), "filename", "UNVERIFIED")]
\* The mutant leaves the file names the manifest does not hold out of the
\* report.
verify_citations_OmitsUnknownNames(response_text, known_sha256s, known_filenames) ==
    LET hs == SortedHashes(extract_sha256s(response_text))
        ns == SortedNames(extract_filenames(response_text))
        okH(h) == h \in known_sha256s
        badH(h) == h \notin known_sha256s
        okN(n) == n \in known_filenames
        cite(xs, type, status) == [i \in 1..Len(xs) |-> Citation(type, xs[i], status)]
    IN [verified |-> cite(SelectSeq(hs, okH), "sha256", "VERIFIED")
                     \o cite(SelectSeq(ns, okN), "filename", "VERIFIED"),
        unverified |-> cite(SelectSeq(hs, badH), "sha256", "UNVERIFIED")]
\* verify_citations: the verified and the unverified list.
verify_citations(response_text, known_sha256s, known_filenames) ==
    LET hs == SortedHashes(extract_sha256s(response_text))
        ns == SortedNames(extract_filenames(response_text))
        okH(h) == h \in known_sha256s
        badH(h) == h \notin known_sha256s
        okN(n) == n \in known_filenames
        badN(n) == n \notin known_filenames
        cite(xs, type, status) == [i \in 1..Len(xs) |-> Citation(type, xs[i], status)]
    IN [verified |-> cite(SelectSeq(hs, okH), "sha256", "VERIFIED")
                     \o cite(SelectSeq(ns, okN), "filename", "VERIFIED"),
        unverified |-> cite(SelectSeq(hs, badH), "sha256", "UNVERIFIED")
                       \o cite(SelectSeq(ns, badN), "filename", "UNVERIFIED")]

\* _pos_signals_with_examples: the signals of a sentence, in the order NNP,
\* CD, JJR.  NNP skips the first token and the function words.
pos_signals(sentence) ==
    LET nnp == \E i \in 2..Len(sentence) :
                  sentence[i].kind = "capital" /\ sentence[i].value \notin FunctionWords
        cd == \E i \in 1..Len(sentence) : sentence[i].kind = "number"
        jjr == \E i \in 1..Len(sentence) : sentence[i].kind = "comparative"
    IN (IF nnp THEN <<"NNP">> ELSE <<>>) \o (IF cd THEN <<"CD">> ELSE <<>>)
       \o (IF jjr THEN <<"JJR">> ELSE <<>>)

\* _pos_signals_with_examples: the examples, the first three hits of every
\* signal the sentence has.
signal_examples(sentence) ==
    LET nnp(t) == t.kind = "capital" /\ t.value \notin FunctionWords
        cd(t) == t.kind = "number"
        jjr(t) == t.kind = "comparative"
        hits(signal) == CASE signal = "NNP" -> SelectSeq(Tail(sentence), nnp)
                          [] signal = "CD" -> SelectSeq(sentence, cd)
                          [] signal = "JJR" -> SelectSeq(sentence, jjr)
        first3(xs) == [i \in 1..(IF Len(xs) < 3 THEN Len(xs) ELSE 3) |-> xs[i].value]
        signals == pos_signals(sentence)
    IN [signal \in {signals[i] : i \in 1..Len(signals)} |-> first3(hits(signal))]

is_claim_sentence(sentence) == pos_signals(sentence) # <<>>

\* The mutant counts any 64-hex token as a citation.
sentence_has_sha256_citation_Any(sentence, known_sha256s) ==
    extract_sha256s(sentence) # {}
sentence_has_sha256_citation(sentence, known_sha256s) ==
    extract_sha256s(sentence) \cap known_sha256s # {}

\* The mutant writes a fix-it record for every claim sentence, cited or not.
compute_citation_density_AllClaims(response_text, known_sha256s) ==
    LET sentences == SplitSentences(response_text, 1, <<>>)
        claim_records == SelectSeq(sentences, is_claim_sentence)
        cited(x) == sentence_has_sha256_citation(x, known_sha256s)
        record(x) == [sentence |-> x, signals |-> pos_signals(x),
                      signal_examples |-> signal_examples(x), cited |-> cited(x)]
        cited_count == Len(SelectSeq(claim_records, cited))
        factual_count == Len(claim_records)
    IN [factual_count |-> factual_count,
        cited_count |-> cited_count,
        naked_claims |-> [i \in 1..Len(claim_records) |-> record(claim_records[i])],
        citation_density |-> IF factual_count > 0
                               THEN [num |-> cited_count, den |-> factual_count]
                               ELSE NoDensity,
        non_factual_count |-> Len(sentences) - factual_count,
        total_sentences |-> Len(sentences)]
\* The mutant divides by the number of sentences.
compute_citation_density_PerSentence(response_text, known_sha256s) ==
    LET sentences == SplitSentences(response_text, 1, <<>>)
        cited(x) == is_claim_sentence(x) /\ sentence_has_sha256_citation(x, known_sha256s)
        cited_count == Len(SelectSeq(sentences, cited))
    IN [factual_count |-> Len(SelectSeq(sentences, is_claim_sentence)),
        cited_count |-> cited_count,
        naked_claims |-> <<>>,
        citation_density |-> IF Len(sentences) > 0
                               THEN [num |-> cited_count, den |-> Len(sentences)]
                               ELSE NoDensity,
        non_factual_count |-> 0,
        total_sentences |-> Len(sentences)]
\* compute_citation_density.  The density is the fraction cited_count /
\* factual_count, or None.
compute_citation_density(response_text, known_sha256s) ==
    LET sentences == SplitSentences(response_text, 1, <<>>)
        claim_records == SelectSeq(sentences, is_claim_sentence)
        cited(x) == sentence_has_sha256_citation(x, known_sha256s)
        naked(x) == ~sentence_has_sha256_citation(x, known_sha256s)
        record(x) == [sentence |-> x, signals |-> pos_signals(x),
                      signal_examples |-> signal_examples(x), cited |-> cited(x)]
        naked_sentences == SelectSeq(claim_records, naked)
        cited_count == Len(SelectSeq(claim_records, cited))
        factual_count == Len(claim_records)
    IN [factual_count |-> factual_count,
        cited_count |-> cited_count,
        naked_claims |-> [i \in 1..Len(naked_sentences) |-> record(naked_sentences[i])],
        citation_density |-> IF factual_count > 0
                               THEN [num |-> cited_count, den |-> factual_count]
                               ELSE NoDensity,
        non_factual_count |-> Len(sentences) - factual_count,
        total_sentences |-> Len(sentences)]

\* density >= threshold, the threshold in hundredths.
AtLeast(density, threshold) == density.num * 100 >= threshold * density.den

\* cited_count / factual_count is a binary double and "{:.4f}" rounds the
\* double, not the fraction.  The two differ in their fourth decimal only when
\* the fraction lies exactly half way between two of them: then a double that
\* equals the fraction goes to the even digit, and a double that is above or
\* below the fraction goes up or down.
\* The exponent of the double: the least j with num * 2^j >= den.
RECURSIVE DoubleShift(_, _, _)
DoubleShift(num, den, j) ==
    IF num * (2 ^ j) >= den THEN j ELSE DoubleShift(num, den, j + 1)
\* 2^e modulo m.
RECURSIVE PowerOfTwoMod(_, _)
PowerOfTwoMod(e, m) == IF e = 0 THEN 1 % m ELSE (2 * PowerOfTwoMod(e - 1, m)) % m
\* What the division leaves behind the 53 bits of the double: 0 when the
\* double equals the fraction, more than half of den when it was rounded up.
DoubleRemainder(num, den) ==
    (num * PowerOfTwoMod(52 + DoubleShift(num, den, 0), den)) % den

\* f"{citation_density:.4f}" in ten-thousandths, or N/A.
ScoreStr(citation_density) ==
    IF citation_density = NoDensity THEN [na |-> TRUE, value |-> 0]
    ELSE LET num == citation_density.num
             den == citation_density.den
             floor == (10000 * num) \div den
             rest == (10000 * num) % den
             left == DoubleRemainder(num, den)
         IN [na |-> FALSE,
             value |-> IF 2 * rest < den THEN floor
                       ELSE IF 2 * rest > den THEN floor + 1
                       ELSE IF left = 0 THEN (IF floor % 2 = 0 THEN floor ELSE floor + 1)
                       ELSE IF 2 * left > den THEN floor + 1
                       ELSE floor]

\* The command lines: --mode and --strict, --draft, --threshold (in
\* hundredths, when given).
ModeArgs == {[mode |-> "none", strict |-> FALSE],
             [mode |-> "compliance", strict |-> FALSE],
             [mode |-> "research", strict |-> TRUE]}
ThresholdArgs == {[given |-> FALSE, value |-> 0],
                  [given |-> TRUE, value |-> 50],
                  [given |-> TRUE, value |-> 150]}
ValArgs == {[mode |-> m.mode, strict |-> m.strict, draft |-> d, threshold |-> t] :
               m \in ModeArgs, d \in BOOLEAN, t \in ThresholdArgs}

ValQuiet == \A r \in Runs : val[r].pc \in Terminal

\* The mutant ends every run with status 0.
ValExit_Zero(r, code) == [val EXCEPT ![r].pc = "done", ![r].exit = 0]
\* sys.exit(code): 0 ends the run as done, anything else as failed.
ValExit(r, code) ==
    [val EXCEPT ![r].pc = IF code = 0 THEN "done" ELSE "failed", ![r].exit = code]

\* The response is written to the file validate_output.py will be given,
\* before the first validation.
DraftResponse(text) ==
    /\ \A r \in Runs : val[r].pc = "idle"
    /\ ~response.exists
    /\ response' = [exists |-> TRUE, text |-> text]
    /\ UNCHANGED <<sniff, val, audit, storeVars, fileVars, run, parseVars, histVars>>

\* main up to the reading of the response: the mode, the threshold and its
\* range check (exit 2), the input file (exit 2 when it is missing).
ValidateStart(r, args) ==
    /\ val[r].pc = "idle"
    /\ LET compliance == args.strict \/ args.mode = "compliance"
           mode == IF compliance THEN "COMPLIANCE" ELSE "RESEARCH"
           default_threshold == IF compliance THEN COMPLIANCE_THRESHOLD
                                ELSE RESEARCH_THRESHOLD
           threshold == IF args.threshold.given THEN args.threshold.value
                        ELSE default_threshold
           started_ == [val EXCEPT ![r].override = args.threshold.given,
                                   ![r].lockMismatch = StoreMismatch,
                                   ![r].mode = mode, ![r].draft = args.draft,
                                   ![r].threshold = threshold]
       IN val' = IF ~(0 <= threshold /\ threshold <= 100)
                   THEN [started_ EXCEPT ![r].pc = "failed", ![r].exit = 2]
                 ELSE IF ~response.exists
                   THEN [started_ EXCEPT ![r].pc = "failed", ![r].exit = 2]
                 ELSE [started_ EXCEPT ![r].pc = "load",
                                       ![r].response_text = response.text]
    /\ UNCHANGED <<sniff, response, audit, storeVars, fileVars, run, parseVars, histVars>>

\* The mutant blocks on an unverified citation in research mode too.
ValScore_BlocksResearch(r) ==
    /\ val[r].pc = "load"
    /\ manifest.exists
    /\ manifest.bytes # EmptyBytes
    /\ LET list == JsonLoad(manifest.bytes)
           known_sha256s == known_sha256s_of(list)
           known_filenames == known_filenames_of(list)
           cites == verify_citations(val[r].response_text, known_sha256s, known_filenames)
           density_result == compute_citation_density(val[r].response_text, known_sha256s)
           density == density_result.citation_density
           density_pass == density = NoDensity \/ AtLeast(density, val[r].threshold)
           citations_pass == Len(cites.unverified) = 0
       IN val' = [val EXCEPT ![r].pc = "audit", ![r].scored = TRUE,
                             ![r].known_sha256s = known_sha256s,
                             ![r].known_filenames = known_filenames,
                             ![r].verified = cites.verified,
                             ![r].unverified = cites.unverified,
                             ![r].density_result = density_result,
                             ![r].density_pass = density_pass,
                             ![r].citations_pass = citations_pass,
                             ![r].overall_pass = citations_pass /\ density_pass]
    /\ UNCHANGED <<sniff, response, audit, storeVars, fileVars, run, parseVars, histVars>>
\* The mutant takes the research threshold in both modes.
ValScore_ResearchThreshold(r) ==
    /\ val[r].pc = "load"
    /\ manifest.exists
    /\ manifest.bytes # EmptyBytes
    /\ LET list == JsonLoad(manifest.bytes)
           known_sha256s == known_sha256s_of(list)
           known_filenames == known_filenames_of(list)
           cites == verify_citations(val[r].response_text, known_sha256s, known_filenames)
           density_result == compute_citation_density(val[r].response_text, known_sha256s)
           density == density_result.citation_density
           density_pass == density = NoDensity \/ AtLeast(density, RESEARCH_THRESHOLD)
           citations_pass == IF val[r].mode = "COMPLIANCE"
                               THEN Len(cites.unverified) = 0 ELSE TRUE
       IN val' = [val EXCEPT ![r].pc = "audit", ![r].scored = TRUE,
                             ![r].known_sha256s = known_sha256s,
                             ![r].known_filenames = known_filenames,
                             ![r].verified = cites.verified,
                             ![r].unverified = cites.unverified,
                             ![r].density_result = density_result,
                             ![r].density_pass = density_pass,
                             ![r].citations_pass = citations_pass,
                             ![r].overall_pass = citations_pass /\ density_pass]
    /\ UNCHANGED <<sniff, response, audit, storeVars, fileVars, run, parseVars, histVars>>
\* load_manifest (exit 2 when the manifest is missing), verify_citations,
\* compute_citation_density and the three verdicts of main.
ValScore(r) ==
    /\ val[r].pc = "load"
    /\ manifest.exists
    /\ manifest.bytes # EmptyBytes
    /\ LET list == JsonLoad(manifest.bytes)
           known_sha256s == known_sha256s_of(list)
           known_filenames == known_filenames_of(list)
           cites == verify_citations(val[r].response_text, known_sha256s, known_filenames)
           density_result == compute_citation_density(val[r].response_text, known_sha256s)
           density == density_result.citation_density
           density_pass == density = NoDensity \/ AtLeast(density, val[r].threshold)
           citations_pass == IF val[r].mode = "COMPLIANCE"
                               THEN Len(cites.unverified) = 0 ELSE TRUE
       IN val' = [val EXCEPT ![r].pc = "audit", ![r].scored = TRUE,
                             ![r].known_sha256s = known_sha256s,
                             ![r].known_filenames = known_filenames,
                             ![r].verified = cites.verified,
                             ![r].unverified = cites.unverified,
                             ![r].density_result = density_result,
                             ![r].density_pass = density_pass,
                             ![r].citations_pass = citations_pass,
                             ![r].overall_pass = citations_pass /\ density_pass]
    /\ UNCHANGED <<sniff, response, audit, storeVars, fileVars, run, parseVars, histVars>>

Header == [kind |-> "header", Timestamp |-> 0, Git_Commit |-> "Git_Commit",
           Mode |-> "Mode", Citation_Score |-> [na |-> TRUE, value |-> 0],
           Status |-> "Status"]
AuditRow(timestamp, git_commit, mode, citation_density, passed) ==
    [kind |-> "data", Timestamp |-> timestamp, Git_Commit |-> git_commit,
     Mode |-> mode, Citation_Score |-> ScoreStr(citation_density),
     Status |-> IF passed THEN "PASS" ELSE "FAIL"]

\* The mutant logs a FAIL row before it exits 2.
ValManifestMissing_LogsRow(r) ==
    /\ val[r].pc = "load"
    /\ ~manifest.exists
    /\ audit' = [exists |-> TRUE,
                 rows |-> audit.rows
                          \o (IF audit.exists THEN <<>> ELSE <<Header>>)
                          \o <<AuditRow(clock, "c0ffee", val[r].mode,
                                        NoDensity, FALSE)>>]
    /\ val' = ValExit(r, 2)
    /\ UNCHANGED <<sniff, response, storeVars, fileVars, run, parseVars, histVars>>
ValManifestMissing(r) ==
    /\ val[r].pc = "load"
    /\ ~manifest.exists \/ manifest.bytes = EmptyBytes
    /\ val' = ValExit(r, IF ~manifest.exists THEN 2 ELSE 1)
    /\ UNCHANGED <<sniff, response, audit, storeVars, fileVars, run, parseVars, histVars>>

\* The mutant writes the header on every run.
ValAuditExists_Always(r) ==
    /\ val[r].pc = "audit"
    /\ val' = [val EXCEPT ![r].pc = "open", ![r].write_header = TRUE,
                          ![r].timestamp = clock + 1]
    /\ clock' = clock + 1
    /\ UNCHANGED <<sniff, response, audit, storeVars, fileVars, run, parseVars, started,
                   completed, tampers, ingested, lastWritten, persisted>>
\* append_audit_log before the file is opened: write_header = not
\* log_path.exists(), then the timestamp of the row.
ValAuditExists(r) ==
    /\ val[r].pc = "audit"
    /\ val' = [val EXCEPT ![r].pc = "open", ![r].write_header = ~audit.exists,
                          ![r].timestamp = clock + 1]
    /\ clock' = clock + 1
    /\ UNCHANGED <<sniff, response, audit, storeVars, fileVars, run, parseVars, started,
                   completed, tampers, ingested, lastWritten, persisted>>

\* append_audit_log, open(log_path, "a"): a log that was not there is there
\* now and holds nothing; a log that was there is as it was.
ValAuditOpen(r) ==
    /\ val[r].pc = "open"
    /\ audit' = [audit EXCEPT !.exists = TRUE]
    /\ val' = [val EXCEPT ![r].pc = "append"]
    /\ UNCHANGED <<sniff, response, storeVars, fileVars, run, parseVars, histVars>>

\* The mutant exits 1 on a failed check also in draft mode.
ValAuditAppend_DraftFails(r) ==
    /\ val[r].pc = "append"
    /\ LET audit_status == val[r].overall_pass \/ val[r].draft
           label == IF val[r].draft THEN val[r].mode \o "-DRAFT" ELSE val[r].mode
           row == AuditRow(val[r].timestamp, "c0ffee", label,
                           val[r].density_result.citation_density, audit_status)
       IN /\ audit' = [exists |-> TRUE,
                       rows |-> audit.rows
                                \o (IF val[r].write_header THEN <<Header>> ELSE <<>>)
                                \o <<row>>]
          /\ val' = [ValExit(r, IF val[r].overall_pass THEN 0 ELSE 1)
                       EXCEPT ![r].rowAt = Len(audit'.rows)]
    /\ UNCHANGED <<sniff, response, storeVars, fileVars, run, parseVars, histVars>>
\* The rest of append_audit_log and of main: when the file is closed the row
\* reaches the end of the audit log, after a header when the log was not
\* there at the check, and the run exits 0 or 1.
ValAuditAppend(r) ==
    /\ val[r].pc = "append"
    /\ LET audit_status == val[r].overall_pass \/ val[r].draft
           label == IF val[r].draft THEN val[r].mode \o "-DRAFT" ELSE val[r].mode
           row == AuditRow(val[r].timestamp, "c0ffee", label,
                           val[r].density_result.citation_density, audit_status)
       IN /\ audit' = [exists |-> TRUE,
                       rows |-> audit.rows
                                \o (IF val[r].write_header THEN <<Header>> ELSE <<>>)
                                \o <<row>>]
          /\ val' = [ValExit(r, IF val[r].overall_pass \/ val[r].draft THEN 0 ELSE 1)
                       EXCEPT ![r].rowAt = Len(audit'.rows)]
    /\ UNCHANGED <<sniff, response, storeVars, fileVars, run, parseVars, histVars>>

ValStep(r) ==
    \/ ValScore(r)
    \/ ValManifestMissing(r)
    \/ ValAuditExists(r)
    \/ ValAuditOpen(r)
    \/ ValAuditAppend(r)

\* ------------------- validate runs one after another, one run to a slot
SeqValStart(r, args) ==
    /\ ValQuiet
    /\ r = "r1" \/ val["r1"].pc # "idle"
    /\ ValidateStart(r, args)

NextVal ==
    \/ \E text \in Responses : DraftResponse(text)
    \/ \E r \in Runs, args \in ValArgs : SeqValStart(r, args)
    \/ \E r \in Runs : ValStep(r)

\* Validation starts on an empty store or on the store one ingest left.
InitVal == (Init /\ \A f \in Files : fileLoc[f] = "raw") \/ AfterFirstIngest

SpecVal == InitVal /\ [][NextVal]_vars

\* ------------------------------------------------- out-of-band modifications

\* What a manual edit can turn the manifest into: a re-indented file, the last
\* entry removed, the hash of the last entry replaced.
EditedManifests(bytes) ==
    LET es == bytes.entries
        n == Len(es)
    IN {[bytes EXCEPT !.layout = "edited"]}
       \cup (IF n = 0 THEN {}
             ELSE {[bytes EXCEPT !.entries = SubSeq(es, 1, n - 1)]}
                  \cup {[bytes EXCEPT !.entries[n].sha256 = get_file_sha256(c)] :
                          c \in Contents})

\* manifest.json is edited by hand, or deleted.
TamperManifest ==
    /\ Quiet
    /\ Commands < MaxCommands
    /\ manifest.exists
    /\ \/ \E b \in EditedManifests(manifest.bytes) :
            /\ b # manifest.bytes
            /\ manifest' = [manifest EXCEPT !.bytes = b]
       \/ manifest' = [exists |-> FALSE, bytes |-> NoBytes]
    /\ tampers' = tampers + 1
    /\ run' = [r \in Runs |-> NoRun]
    /\ parse' = NoParse
    /\ UNCHANGED <<toolVars, lock, sig, asc, fileVars, parsed, parses, clock, started, completed,
                   ingested, lastWritten, persisted>>

\* manifest.lock is damaged, or deleted.
TamperLock ==
    /\ Quiet
    /\ Commands < MaxCommands
    /\ lock.state = "ok"
    /\ \E st \in {"corrupt", "absent"} : lock' = [state |-> st, sha |-> NoDigest]
    /\ tampers' = tampers + 1
    /\ run' = [r \in Runs |-> NoRun]
    /\ parse' = NoParse
    /\ UNCHANGED <<toolVars, manifest, sig, asc, fileVars, parsed, parses, clock, started,
                   completed, ingested, lastWritten, persisted>>

\* The armored signature gpg wrote is saved by hand under the name parse.py
\* looks for, manifest.json.sig.
PlaceSignature ==
    /\ Quiet
    /\ Commands < MaxCommands
    /\ asc.exists
    /\ sig # asc
    /\ sig' = asc
    /\ tampers' = tampers + 1
    /\ run' = [r \in Runs |-> NoRun]
    /\ parse' = NoParse
    /\ UNCHANGED <<toolVars, manifest, lock, asc, fileVars, parsed, parses, clock, started,
                   completed, ingested, lastWritten, persisted>>

\* A document is modified after it was ingested.
ModifyFile(f) ==
    /\ Quiet
    /\ Commands < MaxCommands
    /\ fileLoc[f] = "raw"
    /\ \E c \in Contents :
         /\ c # fileContent[f]
         /\ fileContent' = [fileContent EXCEPT ![f] = c]
    /\ tampers' = tampers + 1
    /\ run' = [r \in Runs |-> NoRun]
    /\ parse' = NoParse
    /\ UNCHANGED <<toolVars, storeVars, fileLoc, parsed, parses, clock, started, completed,
                   ingested, lastWritten, persisted>>

\* ------------------------ the commands one at a time, with out-of-band edits
Next ==
    \/ \E r \in SeqRuns, f \in Files, sign \in BOOLEAN : SeqIngestStart(r, f, sign)
    \/ \E r \in SeqRuns : IngestStep(r)
    \/ \E f \in Files, mode \in {"research", "compliance"} : ParseStart(f, mode)
    \/ ParseStep
    \/ TamperManifest
    \/ TamperLock
    \/ PlaceSignature
    \/ \E f \in Files : ModifyFile(f)

Spec == Init /\ [][Next]_vars

\* --------- validate runs on a manifest that was edited after the ingest
\* One edit of manifest.json, while no validate run is under way.
ValTamperManifest ==
    /\ ValQuiet
    /\ tampers = 0
    /\ TamperManifest

\* The responses of one sentence.
ShortResponses == {JoinSentences(<<sentence>>) : sentence \in Sentences}

NextValEdits ==
    \/ ValTamperManifest
    \/ \E text \in ShortResponses : DraftResponse(text)
    \/ \E r \in Runs, args \in ValArgs : SeqValStart(r, args)
    \/ \E r \in Runs : ValStep(r)

SpecValEdits == AfterFirstIngest /\ [][NextValEdits]_vars

\* ------------- ingest runs after out-of-band edits of the store one ingest left
NextRelock ==
    \/ \E r \in SeqRuns, f \in Files, sign \in BOOLEAN : SeqIngestStart(r, f, sign)
    \/ \E r \in SeqRuns : IngestStep(r)
    \/ TamperManifest
    \/ TamperLock

SpecRelock == AfterFirstIngest /\ [][NextRelock]_vars


\* ----------- validate runs on responses that cite the same things differently
\* Sentences that cite: the hash of the ingested file, two hashes nothing has,
\* the ingested file by name and a file that was not ingested.
CiteSentences == {<<Word, HashOf("v1")>>,
                  <<Word, HashOf("v2")>>,
                  <<Word, HashOf("fabricated")>>,
                  <<Word, FileName("a.pdf")>>,
                  <<Word, FileName("b.pdf")>>}

\* The responses of up to two of them, in either order.
CiteResponses ==
    {JoinSentences(ss) : ss \in UNION {[1..n -> CiteSentences] : n \in {1, 2}}}

\* The response file is written, or written anew, between two runs.
WriteResponse(text) ==
    /\ ValQuiet
    /\ response # [exists |-> TRUE, text |-> text]
    /\ response' = [exists |-> TRUE, text |-> text]
    /\ UNCHANGED <<sniff, val, audit, storeVars, fileVars, run, parseVars, histVars>>

\* validate_output.py --input response.txt, nothing else on the command line.
PlainArgs == [mode |-> "none", strict |-> FALSE, draft |-> FALSE,
              threshold |-> [given |-> FALSE, value |-> 0]]

NextCite ==
    \/ \E text \in CiteResponses : WriteResponse(text)
    \/ \E r \in Runs : SeqValStart(r, PlainArgs)
    \/ \E r \in Runs : ValScore(r)
    \/ \E r \in Runs : ValAuditExists(r)
    \/ \E r \in Runs : ValAuditOpen(r)
    \/ \E r \in Runs : ValAuditAppend(r)

SpecCite == AfterFirstIngest /\ [][NextCite]_vars

\* ------- parse and validate runs, one command at a time, on the store one
\* ingest left, with a document modified in between
\* A response whose one citation is in no manifest.
ReaderResponse == JoinSentences(<<<<Word, Number, HashOf("fabricated")>>>>)

\* Command lines: no option, --mode compliance, --threshold 1.5.
ReaderArgs == {PlainArgs,
               [PlainArgs EXCEPT !.mode = "compliance"],
               [PlainArgs EXCEPT !.threshold = [given |-> TRUE, value |-> 150]]}

NextReaders ==
    \/ \E f \in Files, mode \in {"research", "compliance"} :
           ValQuiet /\ ParseStart(f, mode)
    \/ ParseStep
    \/ DraftResponse(ReaderResponse)
    \/ \E r \in Runs, args \in ReaderArgs : Quiet /\ SeqValStart(r, args)
    \/ \E r \in Runs : ValScore(r)
    \/ \E r \in Runs : ValAuditExists(r)
    \/ \E r \in Runs : ValAuditOpen(r)
    \/ \E r \in Runs : ValAuditAppend(r)
    \/ \E f \in Files : ModifyFile(f)

SpecReaders == AfterFirstIngest /\ [][NextReaders]_vars

\* ---------------- validate runs that overlap: nothing makes a run wait for
\* another, so the steps of the two interleave freely
NextValConc ==
    \/ DraftResponse(ReaderResponse)
    \/ \E r \in Runs, args \in ReaderArgs : ValidateStart(r, args)
    \/ \E r \in Runs : ValScore(r)
    \/ \E r \in Runs : ValAuditExists(r)
    \/ \E r \in Runs : ValAuditOpen(r)
    \/ \E r \in Runs : ValAuditAppend(r)

SpecValConc == AfterFirstIngest /\ [][NextValConc]_vars

\* ======================================================= claims on ingest

LockMatchesManifest ==
    /\ lock.state = "ok"
    /\ lock.sha = get_manifest_sha256(manifest.bytes)

Entries == JsonLoad(manifest.bytes)

\* C1: when two ingest runs against the same manifest have both run to the end,
\* whatever the interleaving of their steps, the hash recorded in the lockfile
\* is the hash of the manifest on disk.
C1_FinalLockMatchesManifest ==
    (\A r \in Runs : run[r].pc = "done" /\ run[r].outcome = "ok") => LockMatchesManifest

\* C2: the manifest is append-only: every entry an ingest run ever wrote to the
\* manifest is still there, unchanged, at the position it was written to.
C2_ManifestAppendOnly ==
    \A pe \in persisted :
        /\ manifest.exists
        /\ pe[1] <= Len(Entries)
        /\ Entries[pe[1]] = pe[2]

\* C3: from an empty store, after N ingest runs executed one after another, each
\* to completion, the lockfile exists and records the hash of the manifest, and
\* the manifest holds exactly the N entries, in the order of their ingestion.
\* (After no run at all there is neither a manifest nor a lockfile.)
C3_SequentialRunsConsistent ==
    AllIdle =>
        /\ completed = 0 => ~manifest.exists /\ lock.state = "absent"
        /\ completed >= 1 =>
             /\ manifest.exists
             /\ LockMatchesManifest
             /\ Len(Entries) = completed
             /\ Entries = ingested
             /\ \A i, j \in 1..Len(Entries) :
                  i < j => Entries[i].ingested_at < Entries[j].ingested_at

\* Three runs completed one after another, two of them on the same document.
C3_Witness ==
    /\ AllIdle
    /\ completed = 3
    /\ Len(Entries) = 3
    /\ \E i, j \in 1..3 : i # j /\ Entries[i].filename = Entries[j].filename

\* C4: the manifest write and the lockfile write of an ingest run are atomic to
\* every other run: no run's consistency check ever finds a manifest whose hash
\* differs from the hash the lockfile records.  (Nothing but ingest runs touches
\* the store here, so a breach is always such an observation.)
C4_NoRunObservesMismatch ==
    \A r \in Runs : run[r].outcome # "IntegrityBreach"

\* C5: a lockfile written right after a manifest write passes the consistency
\* check against that manifest; and once the manifest has been changed out of
\* band in any way (re-indented, an entry removed, a hash replaced, the file
\* deleted), the lockfile left in place, the next ingest run ends with an
\* integrity breach.  The module docstring of ingest.py and the note written
\* into manifest.lock promise the same.  The code does not do it: main calls
\* check_lockfile_integrity only when manifest.json exists, so a run that
\* finds the lockfile without its manifest starts a new manifest, replaces
\* the lockfile and ends with exit code 0 (ManifestDeletionUnnoticed).
C5_LockfileDetectsEdits ==
    \A r \in Runs :
        /\ run[r].pc \in {"sign", "done"} =>
             /\ lock.state = "ok"
             /\ ~HashMismatch(lock.sha, get_manifest_sha256(manifest.bytes))
        /\ ( /\ run[r].pc \notin {"idle", "check", "check_lock", "check_hash"}
             /\ run[r].outcome # "FileNotFound"
             /\ run[r].before.lock.state = "ok"
             /\ run[r].edited )
           => run[r].outcome = "IntegrityBreach"

\* What the code does keep of it: the lockfile written after a manifest write
\* matches that manifest, and a changed manifest that is still a file makes
\* the next ingest run end with an integrity breach.
ManifestEditsInPlaceDetected ==
    \A r \in Runs :
        /\ run[r].pc \in {"sign", "done"} =>
             /\ lock.state = "ok"
             /\ ~HashMismatch(lock.sha, get_manifest_sha256(manifest.bytes))
        /\ ( /\ run[r].pc \notin {"idle", "check", "check_lock", "check_hash"}
             /\ run[r].outcome # "FileNotFound"
             /\ run[r].before.manifest.exists
             /\ run[r].before.lock.state = "ok"
             /\ run[r].edited )
           => run[r].outcome = "IntegrityBreach"

\* An ingest run that found an edited manifest next to its lockfile, and failed.
EditedManifestRefused ==
    \E r \in Runs :
        /\ run[r].outcome = "IntegrityBreach"
        /\ run[r].edited
        /\ run[r].before.lock.state = "ok"
        /\ Len(Entries) = Len(JsonLoad(lastWritten))

\* The manifest was deleted and the lockfile left in place: the run skips the
\* check (main, step 1), starts a new manifest of one entry, replaces the
\* lockfile and ends normally.  Nothing reports the lost entries.
ManifestDeletionUnnoticed ==
    \E r \in Runs :
        /\ run[r].outcome = "ok"
        /\ run[r].exit = 0
        /\ run[r].edited
        /\ run[r].before.lock.state = "ok"
        /\ ~run[r].before.manifest.exists
        /\ Len(ingested) = 2
        /\ Len(Entries) = 1

\* C6: an ingest run that finds the lockfile unreadable, or the manifest hash
\* different from the recorded one, fails before any mutation: the manifest,
\* the lockfile and the signature are as the run found them; and as long as the
\* check is under way nothing has been written.
C6_BreachAbortsBeforeMutation ==
    \A r \in Runs :
        /\ run[r].outcome = "IntegrityBreach" => run[r].pc = "failed" /\ Store = run[r].before
        /\ run[r].pc \in {"check", "check_lock", "check_hash"} => Store = run[r].before
        /\ ( /\ run[r].pc \notin {"idle", "check", "check_lock", "check_hash"}
             /\ run[r].outcome # "FileNotFound"
             /\ run[r].before.manifest.exists
             /\ \/ run[r].before.lock.state = "corrupt"
                \/ /\ run[r].before.lock.state = "ok"
                   /\ run[r].before.lock.sha
                        # get_manifest_sha256(run[r].before.manifest.bytes) )
           => run[r].outcome = "IntegrityBreach"

\* A signed store whose manifest was edited, and the run that refused it.
C6_Witness ==
    \E r \in Runs :
        /\ run[r].outcome = "IntegrityBreach"
        /\ run[r].before.lock.state = "ok"
        /\ sig.exists
        /\ Store = run[r].before

\* The other way into the breach: the lockfile is unreadable.
C6_CorruptLockReached ==
    \E r \in Runs :
        run[r].outcome = "IntegrityBreach" /\ run[r].before.lock.state = "corrupt"

\* ======================================================== claims on parse

\* C7: every parse run checks the manifest against the lockfile: a parse run
\* started on a manifest whose hash differs from the hash the lockfile records
\* writes no output.
C7_ParseChecksLockfile ==
    parse.lockMismatch => ~parse.wrote

AllGatesPassed(g) ==
    /\ Len(g) = Len(GateOrder)
    /\ \A i \in 1..Len(g) : g[i].gate = GateOrder[i] /\ g[i].result = "pass"

GatesInOrder ==
    LET g == parse.gates
    IN /\ Len(g) <= Len(GateOrder)
       /\ \A i \in 1..Len(g) : g[i].gate = GateOrder[i]
       /\ \A i \in 1..Len(g) :
            g[i].result = "fail" => i = Len(g) /\ parse.pc = "failed" /\ ~parse.wrote
       /\ parse.wrote => AllGatesPassed(g)

OutputOnlyAfterAllGates ==
    parsed' # parsed => parse'.wrote /\ AllGatesPassed(parse'.gates)

\* C8: the gates of a parse run are evaluated in a fixed order (trust, manifest
\* lookup, file hash, PII, schema); a failing gate is the last one evaluated and
\* ends the run; an output file is written only by a run all of whose gates
\* passed.
C8_FirstFailingGateEndsRun == []GatesInOrder /\ [][OutputOnlyAfterAllGates]_vars

\* A run stopped by the PII gate, the fourth, with no output for its document.
C8_Witness ==
    /\ parse.outcome = "PrivacyRisk"
    /\ Len(parse.gates) = 4
    /\ parse.gates[4].result = "fail"
    /\ ~parsed[parse.file].exists

\* C9: the trust gate.  INVALID (artifact present, verification fails) aborts
\* the run in both modes; UNSIGNED (no artifact) aborts it in compliance mode
\* only; SIGNED lets it proceed in both.
C9_TrustGatePolicy ==
    parse.trust # "none" =>
        LET aborted == parse.pc = "failed" /\ parse.outcome = "TrustFailure"
            proceeds == parse.outcome # "TrustFailure" /\ parse.gates[1].result = "pass"
        IN /\ parse.seen.artifact /\ parse.seen.gpg /\ ~parse.seen.verifies
                => parse.trust = "INVALID" /\ aborted
           /\ ~parse.seen.artifact
                => /\ parse.trust = "UNSIGNED"
                   /\ parse.mode = "compliance" => aborted
                   /\ parse.mode = "research" => proceeds /\ parse.sigStatus = "UNSIGNED"
           /\ parse.seen.artifact /\ parse.seen.gpg /\ parse.seen.verifies
                => parse.trust = "SIGNED" /\ proceeds /\ parse.sigStatus = "SIGNED"

\* An invalid signature stops a research-mode run.
C9_Witness ==
    /\ parse.trust = "INVALID"
    /\ parse.mode = "research"
    /\ parse.outcome = "TrustFailure"

\* The other rows of the table.
C9_UnsignedComplianceReached ==
    parse.trust = "UNSIGNED" /\ parse.mode = "compliance" /\ parse.outcome = "TrustFailure"
C9_SignedComplianceReached ==
    parse.trust = "SIGNED" /\ parse.mode = "compliance" /\ parse.wrote

\* C10: in compliance mode a run whose signature state is UNSIGNED, for
\* whatever reason, fails: no compliance-mode run writes an output whose
\* provenance says manifest_signature = UNSIGNED.
C10_ComplianceNeverWritesUnsigned ==
    (parse.mode = "compliance" /\ parse.wrote)
        => parsed[parse.file].provenance.manifest_signature # "UNSIGNED"

\* C11: in research mode a run that finds no signature artifact passes the
\* trust gate, and an output it writes records manifest_signature = UNSIGNED;
\* the manifest_signature of an output is the state the trust gate of the
\* writing run computed, and it is never INVALID.
C11_OutputRecordsTrustState ==
    /\ (parse.trust # "none" /\ parse.mode = "research" /\ ~parse.seen.artifact)
          => parse.outcome # "TrustFailure" /\ parse.gates[1].result = "pass"
    /\ parse.wrote =>
          LET recorded == parsed[parse.file].provenance.manifest_signature
          IN /\ recorded = parse.trust
             /\ recorded # "INVALID"
             /\ (parse.mode = "research" /\ ~parse.seen.artifact) => recorded = "UNSIGNED"

\* A research-mode run without a signature artifact wrote an UNSIGNED output.
C11_Witness ==
    /\ parse.wrote
    /\ parse.mode = "research"
    /\ ~parse.seen.artifact
    /\ parsed[parse.file].provenance.manifest_signature = "UNSIGNED"

BreachedRunDidNothing ==
    parse.outcome = "ProvenanceBreach" =>
        /\ parse.pc = "failed"
        /\ ~parse.wrote
        /\ parse.risk = NoRisk
        /\ parse.gates[Len(parse.gates)] = Gate("hash", TRUE)
        /\ fileLoc[parse.file] = "raw"

ProvenanceBreachHalts ==
    (/\ parse.pc = "hash"
     /\ get_file_sha256(fileContent[parse.file]) # parse.entry.sha256)
        => /\ parse'.pc = "failed"
           /\ parse'.outcome = "ProvenanceBreach"
           /\ parsed' = parsed
           /\ fileVars' = fileVars

\* C12: when the hash a parse run computes for the file differs from the hash
\* of the manifest entry selected for it, the run halts with a provenance
\* breach: nothing is converted or scanned, no output is written and the file
\* stays where it is.
C12_ProvenanceBreachHalts == []BreachedRunDidNothing /\ [][ProvenanceBreachHalts]_vars

\* A run halted on a file whose content no longer has the recorded hash.
C12_Witness ==
    /\ parse.outcome = "ProvenanceBreach"
    /\ manifest.exists
    /\ \E i \in 1..Len(Entries) :
         /\ Entries[i].filename = parse.file
         /\ Entries[i].sha256 # get_file_sha256(fileContent[parse.file])
    /\ fileLoc[parse.file] = "raw"

HighCount(ms) == Cardinality({i \in 1..Len(ms) : ms[i].confidence = "HIGH"})
MediumCount(ms) == Cardinality({i \in 1..Len(ms) : ms[i].confidence = "MEDIUM"})

\* C13: assess_risk returns quarantine = true for every match list with at
\* least one HIGH match, however many MEDIUM matches it holds.
C13_AnyHighQuarantines ==
    (sniff.pc = "done" /\ HighCount(sniff.matches) >= 1) => sniff.quarantine

\* One HIGH match among fewer MEDIUM matches than the threshold.
C13_Witness ==
    /\ sniff.pc = "done"
    /\ HighCount(sniff.matches) = 1
    /\ MediumCount(sniff.matches) = 2
    /\ sniff.quarantine

\* C14: for a match list with no HIGH match and k MEDIUM matches, assess_risk
\* returns quarantine = true exactly when k >= 3.
C14_MediumThreshold ==
    (sniff.pc = "done" /\ HighCount(sniff.matches) = 0)
        => (sniff.quarantine <=> MediumCount(sniff.matches) >= 3)

\* Three MEDIUM matches and nothing else: quarantine.
C14_Witness ==
    /\ sniff.pc = "done"
    /\ HighCount(sniff.matches) = 0
    /\ MediumCount(sniff.matches) = 3
    /\ sniff.quarantine

\* Two MEDIUM matches and nothing else: no quarantine.
C14_TwoMediumReached ==
    /\ sniff.pc = "done"
    /\ HighCount(sniff.matches) = 0
    /\ MediumCount(sniff.matches) = 2
    /\ ~sniff.quarantine

QuarantineHalts ==
    /\ parse.risk.quarantine
          => /\ fileLoc[parse.file] = "quarantine"
             /\ parse.pc = "failed"
             /\ parse.outcome = "PrivacyRisk"
             /\ ~parse.wrote
    /\ (parse.risk # NoRisk /\ ~parse.risk.quarantine) => fileLoc[parse.file] = "raw"

QuarantineWritesNothing == parse'.risk.quarantine => parsed' = parsed

\* C15: when the risk assessment of a parse run says quarantine, the file is
\* moved to the quarantine area, the run fails and writes no output; when it
\* says no quarantine, the file stays in place.
C15_QuarantineMovesAndHalts == []QuarantineHalts /\ [][QuarantineWritesNothing]_vars

\* A quarantined document and a failed run.
C15_Witness ==
    /\ parse.risk.quarantine
    /\ parse.outcome = "PrivacyRisk"
    /\ fileLoc[parse.file] = "quarantine"
    /\ ~parsed[parse.file].exists

\* A document that passed the scan, left in place, with its output written.
C15_LeftInPlaceReached ==
    /\ parse.wrote
    /\ parse.risk = [quarantine |-> FALSE, reason |-> "none"]
    /\ fileLoc[parse.file] = "raw"

\* The sentences of the response a validate run read, its claim sentences, and
\* whether a sentence holds a 64-hex token that is the hash of a manifest entry.
SentencesOf(r) == SplitSentences(val[r].response_text, 1, <<>>)
ClaimsOf(r) == SelectSeq(SentencesOf(r), is_claim_sentence)
CitesManifestHash(sentence) ==
    \E i \in 1..Len(sentence) :
        /\ sentence[i].kind = "sha256"
        /\ \E j \in 1..Len(Entries) : Entries[j].sha256 = get_file_sha256(sentence[i].value)
CitedIn(r) == {i \in 1..Len(ClaimsOf(r)) : CitesManifestHash(ClaimsOf(r)[i])}
Finished(r) == val[r].pc \in {"done", "failed"}

\* C16: a validate run that is not a draft passes the density check exactly
\* when the density is undefined or at least the threshold, which is 0.70 in
\* research mode and 1.00 in compliance mode unless --threshold is given; a
\* response with six cited and one uncited claim sentence and no unverified
\* citation passes in research mode and fails in compliance mode.
C16_DensityThreshold ==
    \A r \in Runs :
        (val[r].scored /\ ~val[r].draft) =>
            LET d == val[r].density_result.citation_density
                t == IF val[r].override THEN val[r].threshold
                     ELSE IF val[r].mode = "COMPLIANCE" THEN 100 ELSE 70
            IN /\ val[r].density_pass <=> (d = NoDensity \/ d.num * 100 >= t * d.den)
               /\ (/\ Finished(r)
                   /\ d = [num |-> 6, den |-> 7]
                   /\ ~val[r].override
                   /\ val[r].unverified = <<>>)
                     => val[r].exit = IF val[r].mode = "COMPLIANCE" THEN 1 ELSE 0

\* The six-of-seven response validated in research mode, then in compliance
\* mode, with the default thresholds.
C16_Witness ==
    /\ response.text = SixOfSeven
    /\ \A r \in Runs : ~val[r].draft /\ ~val[r].override
    /\ val["r1"].mode = "RESEARCH" /\ val["r1"].pc = "done" /\ val["r1"].exit = 0
    /\ val["r1"].density_result.citation_density = [num |-> 6, den |-> 7]
    /\ val["r2"].mode = "COMPLIANCE" /\ val["r2"].pc = "failed" /\ val["r2"].exit = 1
    /\ val["r2"].unverified = <<>>

\* C17: the citation density is the number of cited claim sentences over the
\* number of claim sentences; it is undefined (N/A in the log) exactly when the
\* response has no claim sentence, and 1.0 when every claim sentence is cited.
C17_CitationDensity ==
    \A r \in Runs :
        val[r].scored =>
            LET d == val[r].density_result.citation_density
                total == Len(ClaimsOf(r))
                cited == Cardinality(CitedIn(r))
            IN /\ d = NoDensity <=> total = 0
               /\ ScoreStr(d).na <=> total = 0
               /\ total > 0 => d.num = cited /\ d.den = total
               /\ (total > 0 /\ cited = total) => ScoreStr(d) = [na |-> FALSE, value |-> 10000]

\* One claim sentence with the hash of an ingested file, next to a sentence
\* that is no claim: density 1.0.
C17_Witness ==
    /\ val["r1"].scored
    /\ Len(SentencesOf("r1")) = 2
    /\ Len(ClaimsOf("r1")) = 1
    /\ val["r1"].density_result.citation_density = [num |-> 1, den |-> 1]

\* No claim sentence: the density is undefined.
C17_UndefinedReached ==
    /\ val["r1"].scored
    /\ Len(SentencesOf("r1")) = 1
    /\ val["r1"].density_result.citation_density = NoDensity

\* C18: a claim sentence counts as cited exactly when it holds a 64-hex token
\* that is a hash of the manifest; a claim sentence that cites a file name
\* only, or a 64-hex token the manifest does not know, counts as uncited.
C18_CitedIffManifestHash ==
    \A r \in Runs :
        val[r].scored =>
            LET res == val[r].density_result
                uncited(x) == ~CitesManifestHash(x)
            IN /\ res.cited_count = Cardinality(CitedIn(r))
               /\ [i \in 1..Len(res.naked_claims) |-> res.naked_claims[i].sentence]
                     = SelectSeq(ClaimsOf(r), uncited)

\* Against a manifest with entries, a claim sentence with a fabricated hash
\* and a claim sentence with a file name are both uncited.
C18_Witness ==
    /\ val["r1"].scored
    /\ val["r1"].known_sha256s # {}
    /\ val["r1"].response_text = JoinSentences(<<<<Word, Number, HashOf("fabricated")>>,
                                                 <<Word, Comparative, FileName("a.pdf")>>>>)
    /\ Len(val["r1"].density_result.naked_claims) = 2
    /\ val["r1"].density_result.cited_count = 0

\* C19: a draft run whose checks were computed exits 0, whatever the checks
\* say, in research and in compliance mode.
C19_DraftExitsZero ==
    \A r \in Runs :
        (val[r].draft /\ val[r].scored /\ Finished(r)) => val[r].exit = 0

\* A compliance-mode draft whose checks failed, ended with exit code 0.
C19_Witness ==
    \E r \in Runs :
        /\ val[r].draft /\ val[r].mode = "COMPLIANCE"
        /\ val[r].scored /\ ~val[r].overall_pass
        /\ val[r].pc = "done" /\ val[r].exit = 0

C19_ResearchDraftReached ==
    \E r \in Runs :
        /\ val[r].draft /\ val[r].mode = "RESEARCH"
        /\ val[r].scored /\ ~val[r].overall_pass
        /\ val[r].pc = "done" /\ val[r].exit = 0

\* C20: the audit-log row of a draft run carries the draft label and the
\* computed status: FAIL when the checks failed, although the run exits 0.
C20_DraftRowRecordsComputedStatus ==
    \A r \in Runs :
        (val[r].draft /\ val[r].rowAt > 0) =>
            LET row == audit.rows[val[r].rowAt]
            IN /\ row.Mode \in {"RESEARCH-DRAFT", "COMPLIANCE-DRAFT"}
               /\ row.Status = IF val[r].overall_pass THEN "PASS" ELSE "FAIL"

\* ------------------------------------------------------------------ C21
IsPrefix(a, b) == Len(a) <= Len(b) /\ SubSeq(b, 1, Len(a)) = a
DataRows(rows) == {i \in 1..Len(rows) : rows[i].kind = "data"}
HeaderRows(rows) == {i \in 1..Len(rows) : rows[i].kind = "header"}

\* A log that holds rows holds exactly one header, as its first row; a log
\* holds no row only while the run that created it has yet to write.
OneHeaderFirst ==
    audit.exists =>
        IF audit.rows = <<>> THEN \E r \in Runs : val[r].pc = "append"
        ELSE HeaderRows(audit.rows) = {1}

\* A step that changes the rows of the log keeps every earlier row where it
\* was, adds exactly one data row at the end, and adds a header only to a log
\* that held nothing; any other step that changes the log creates it, empty.
AppendsOneRow ==
    /\ audit'.rows # audit.rows =>
          /\ audit'.exists
          /\ IsPrefix(audit.rows, audit'.rows)
          /\ Cardinality(DataRows(audit'.rows)) = Cardinality(DataRows(audit.rows)) + 1
          /\ audit'.rows[Len(audit'.rows)].kind = "data"
          /\ Cardinality(HeaderRows(audit'.rows)) =
               Cardinality(HeaderRows(audit.rows)) + (IF audit.rows = <<>> THEN 1 ELSE 0)
    /\ (audit' # audit /\ audit'.rows = audit.rows) =>
          ~audit.exists /\ audit'.exists /\ audit.rows = <<>>

\* C21: the audit log is append-only across validate runs: each append adds
\* exactly one data row at the end, the rows present before are still there,
\* unchanged and in order, and the header is written only when the log is
\* created, so the log holds exactly one header, as its first row.
C21_AuditLogAppendOnly == [](OneHeaderFirst) /\ [][AppendsOneRow]_vars

\* Two runs have appended: a header and two data rows.
C21_Witness ==
    /\ audit.exists
    /\ Len(audit.rows) = 3
    /\ val["r1"].rowAt = 2
    /\ val["r2"].rowAt = 3
    /\ val["r2"].pc \in Terminal

\* ------------------------------------------------------------------ C22
\* The response of run r cites a hash or a file name the manifest does not
\* hold.
HasUnverified(r) ==
    \E i \in 1..Len(val[r].response_text) :
        LET t == val[r].response_text[i]
        IN \/ /\ t.kind = "sha256"
              /\ \A j \in 1..Len(Entries) : Entries[j].sha256 # get_file_sha256(t.value)
           \/ /\ t.kind = "filename"
              /\ \A j \in 1..Len(Entries) : Entries[j].filename # t.value

\* The density of the response of run r is undefined or reaches the threshold
\* of the run.
DensityMet(r) ==
    \/ Len(ClaimsOf(r)) = 0
    \/ Cardinality(CitedIn(r)) * 100 >= val[r].threshold * Len(ClaimsOf(r))

\* C22 as stated: in either mode a scored run whose response has an
\* UNVERIFIED citation, or whose density is below the threshold, exits 1 unless
\* it is a draft, and then it exits 0.
C22_AnyUnverifiedFails ==
    \A r \in Runs :
        (Finished(r) /\ val[r].scored /\ (HasUnverified(r) \/ ~DensityMet(r)))
            => val[r].exit = IF val[r].draft THEN 0 ELSE 1

\* C22, amended: a scored run whose density is below the threshold, or which
\* is in compliance mode and has an UNVERIFIED citation, exits 1 unless it is a
\* draft, and then it exits 0.
C22_FailsOnDensityOrComplianceUnverified ==
    \A r \in Runs :
        (/\ Finished(r)
         /\ val[r].scored
         /\ (~DensityMet(r) \/ (val[r].mode = "COMPLIANCE" /\ HasUnverified(r))))
            => val[r].exit = IF val[r].draft THEN 0 ELSE 1

\* A response whose density is met and which names a file that was not
\* ingested: the compliance run exits 1, the draft compliance run exits 0.
C22_Witness ==
    /\ val["r1"].scored /\ val["r2"].scored
    /\ DensityMet("r1") /\ HasUnverified("r1")
    /\ val["r1"].mode = "COMPLIANCE" /\ ~val["r1"].draft /\ val["r1"].exit = 1
    /\ val["r2"].mode = "COMPLIANCE" /\ val["r2"].draft /\ val["r2"].exit = 0

\* A research run that is not a draft exits 0 with an UNVERIFIED citation.
C22_ResearchUnverifiedReached ==
    \E r \in Runs :
        /\ val[r].scored /\ val[r].mode = "RESEARCH" /\ ~val[r].draft
        /\ HasUnverified(r) /\ ~val[r].override
        /\ val[r].exit = 0

\* ------------------------------------------------------------------ C23
\* C23: unverified citations gate by mode.  A research run whose density is
\* met exits 0 whether or not a cited hash or file name is UNVERIFIED; a
\* compliance run that is not a draft exits 1 whenever one is; the unverified
\* list of the report is non-empty exactly when the response cites something
\* the manifest does not hold.
C23_UnverifiedGatesByMode ==
    \A r \in Runs :
        (Finished(r) /\ val[r].scored) =>
            /\ val[r].unverified # <<>> <=> HasUnverified(r)
            /\ (val[r].mode = "RESEARCH" /\ DensityMet(r)) => val[r].exit = 0
            /\ (val[r].mode = "COMPLIANCE" /\ HasUnverified(r) /\ ~val[r].draft)
                  => val[r].exit = 1

\* One response with an UNVERIFIED citation and a met density, validated in
\* research mode (exit 0) and then in compliance mode (exit 1), no draft.
C23_Witness ==
    /\ val["r1"].scored /\ val["r2"].scored
    /\ ~val["r1"].draft /\ ~val["r2"].draft
    /\ HasUnverified("r1") /\ DensityMet("r1") /\ DensityMet("r2")
    /\ val["r1"].mode = "RESEARCH" /\ val["r1"].exit = 0
    /\ val["r2"].mode = "COMPLIANCE" /\ val["r2"].exit = 1

\* ------------------------------------------------------------------ C24
\* C24: a compliance run that is not a draft never exits 0 for a response
\* with an uncited claim sentence.
C24_ComplianceNoExceptions ==
    \A r \in Runs :
        (/\ Finished(r)
         /\ val[r].scored
         /\ val[r].mode = "COMPLIANCE"
         /\ ~val[r].draft
         /\ Cardinality(CitedIn(r)) < Len(ClaimsOf(r)))
            => val[r].exit # 0

\* ------------------------------------------------------------------ C25
\* The places of a citation of the given type and value in a list of the
\* report.
PlacesIn(list, type, value) ==
    {i \in 1..Len(list) : list[i].type = type /\ list[i].value = value}

\* The citation is reported once, in the verified list when known and in the
\* unverified list otherwise.
ReportedOnce(r, type, value, known) ==
    /\ Cardinality(PlacesIn(val[r].verified, type, value)) = IF known THEN 1 ELSE 0
    /\ Cardinality(PlacesIn(val[r].unverified, type, value)) = IF known THEN 0 ELSE 1

\* The tokens of a kind in the response of run r.
TokensOf(r, kind) ==
    {i \in 1..Len(val[r].response_text) : val[r].response_text[i].kind = kind}

\* C25: every hash and every file name of the response is reported exactly
\* once, in exactly one of the two lists: VERIFIED when the manifest holds it,
\* UNVERIFIED otherwise; none is left out, one cited several times is reported
\* once, and the lists hold nothing else.
C25_EveryCitationReportedOnce ==
    \A r \in Runs :
        val[r].scored =>
            LET text == val[r].response_text
            IN /\ \A i \in TokensOf(r, "sha256") :
                    ReportedOnce(r, "sha256", get_file_sha256(text[i].value),
                                 \E j \in 1..Len(Entries) :
                                    Entries[j].sha256 = get_file_sha256(text[i].value))
               /\ \A i \in TokensOf(r, "filename") :
                    ReportedOnce(r, "filename", text[i].value,
                                 \E j \in 1..Len(Entries) :
                                    Entries[j].filename = text[i].value)
               /\ \A i \in 1..Len(val[r].verified) :
                    val[r].verified[i].status = "VERIFIED"
               /\ \A i \in 1..Len(val[r].unverified) :
                    val[r].unverified[i].status = "UNVERIFIED"
               /\ Len(val[r].verified) + Len(val[r].unverified) =
                    Cardinality({text[i].value : i \in TokensOf(r, "sha256")})
                    + Cardinality({text[i].value : i \in TokensOf(r, "filename")})

\* A response citing the same ingested hash in two sentences: one VERIFIED
\* item, nothing UNVERIFIED.
C25_Witness ==
    \E r \in Runs :
        /\ val[r].scored
        /\ Cardinality(TokensOf(r, "sha256")) = 2
        /\ Len(val[r].verified) = 1
        /\ val[r].verified[1].type = "sha256"
        /\ val[r].unverified = <<>>

\* A fabricated hash and the name of a file that was not ingested, both
\* UNVERIFIED.
C25_UnknownReached ==
    \E r \in Runs :
        /\ val[r].scored
        /\ val[r].verified = <<>>
        /\ Len(val[r].unverified) = 2
        /\ val[r].unverified[1] = Citation("sha256", get_file_sha256("fabricated"), "UNVERIFIED")
        /\ val[r].unverified[2] = Citation("filename", "b.pdf", "UNVERIFIED")

\* ------------------------------------------------------------------ C26
\* An ingest run that ended: 2 when the file to ingest is missing, 1 when the
\* lockfile gate failed, 0 on success.
IngestExitCodes ==
    \A r \in Runs :
        (run[r].pc \in {"done", "failed"} /\ run[r].outcome # "killed") =>
            run[r].exit = CASE run[r].outcome = "FileNotFound" -> 2
                            [] run[r].outcome = "ok" -> 0
                            [] OTHER -> 1

\* A parse run that ended: 2 when the file or the manifest is missing, 1 when
\* a gate failed, 0 on success.
ParseExitCodes ==
    parse.pc \in {"done", "failed"} =>
        parse.exit = CASE parse.outcome \in {"FileNotFound", "ManifestNotFound"} -> 2
                       [] parse.outcome = "ok" -> 0
                       [] OTHER -> 1

\* A validate run that ended after its arguments were accepted: 2 when the
\* response or the manifest is missing, else 1 or 0 with the verdict.
ValidateExitCodes ==
    \A r \in Runs :
        (Finished(r) /\ 0 <= val[r].threshold /\ val[r].threshold <= 100) =>
            val[r].exit = IF ~val[r].scored THEN 2
                          ELSE IF val[r].overall_pass \/ val[r].draft THEN 0 ELSE 1

\* C26: every flow (ingest, parse, validate) ends with 2 when a required
\* input is missing, with 1 when a gate or validation fails, and with 0 on
\* success.
C26_LogicalExitCodes == IngestExitCodes /\ ParseExitCodes /\ ValidateExitCodes

\* ------------------------------------------------------------------ C27
\* The entries of the manifest run r started on.
EntriesBefore(r) ==
    IF run[r].before.manifest.exists THEN JsonLoad(run[r].before.manifest.bytes)
    ELSE <<>>

\* The manifest run r started on already held the hash of the file of the run.
DuplicateHash(r) ==
    \E i \in 1..Len(EntriesBefore(r)) :
        EntriesBefore(r)[i].sha256 = get_file_sha256(fileContent[run[r].file])

\* C27: an ingest of a file whose content hash the manifest already holds is
\* not rejected: the run fails only for a missing file or a lockfile breach,
\* and when it has ended it has succeeded with exit 0, the manifest is the
\* earlier entries, unchanged, followed by one entry of the same hash, and the
\* lockfile records the hash of that manifest.
C27_DuplicateHashAccepted ==
    \A r \in Runs :
        /\ run[r].pc = "failed" => run[r].outcome \in {"FileNotFound", "IntegrityBreach"}
        /\ (run[r].pc \in {"done", "failed"} /\ run[r].outcome # "FileNotFound"
            /\ DuplicateHash(r)) =>
              /\ run[r].pc = "done" /\ run[r].exit = 0
              /\ run[r].dupWarn
              /\ Len(Entries) = Len(EntriesBefore(r)) + 1
              /\ IsPrefix(EntriesBefore(r), Entries)
              /\ Entries[Len(Entries)].sha256 = get_file_sha256(fileContent[run[r].file])
              /\ Entries[Len(Entries)].filename = run[r].file
              /\ lock = [state |-> "ok", sha |-> get_manifest_sha256(manifest.bytes)]

\* The bytes of a.pdf ingested again under the name b.pdf: two entries with
\* one hash.
C27_Witness ==
    \E r \in Runs :
        /\ run[r].pc = "done" /\ run[r].dupWarn /\ run[r].file = "b.pdf"
        /\ Len(Entries) = 2
        /\ Entries[1].filename = "a.pdf"
        /\ Entries[2].filename = "b.pdf"
        /\ Entries[1].sha256 = Entries[2].sha256

\* ------------------------------------------------------------------ C28
\* The output lacks a required field, or one of its elements a field, or an
\* element has the empty string as its location.
Defective(output) ==
    \/ \E k \in {"schema_version", "provenance", "elements"} : k \notin DOMAIN output
    \/ \E k \in {"filename", "sha256", "ingested_at", "source_path", "verified",
                 "manifest_signature"} : k \notin DOMAIN output.provenance
    \/ \E i \in 1..Len(output.elements) :
          \/ "location" \notin DOMAIN output.elements[i]
          \/ "content" \notin DOMAIN output.elements[i]
          \/ output.elements[i].location = <<"">>

\* Every written output is complete and each of its elements has a location
\* of one or more labels, none of them the empty string; a run that ended on
\* the schema check exited 1 and wrote nothing.
WrittenOutputsWellFormed ==
    /\ \A f \in Files :
         parsed[f].exists =>
            /\ ~Defective(parsed[f])
            /\ \A i \in 1..Len(parsed[f].elements) :
                 LET location == parsed[f].elements[i].location
                 IN /\ Len(location) >= 1
                    /\ \A j \in 1..Len(location) : location[j] # ""
    /\ parse.outcome = "SchemaViolation" =>
         /\ parse.pc = "failed" /\ parse.exit = 1 /\ ~parse.wrote
         /\ Defective(parse.rejected)

\* The step that gives the schema check a defective output ends the run as a
\* schema violation and leaves every output file as it was; a step that ends
\* as a schema violation was given a defective output.
DefectiveOutputRejected ==
    (parse.pc = "schema" /\ parse'.pc \in {"done", "failed"}) =>
        IF parse'.outcome = "SchemaViolation"
          THEN parsed' = parsed
          ELSE /\ parse'.outcome = "ok"
               /\ ~Defective(parsed'[parse.file])

\* C28: an assembled output that lacks a required field, or has an element
\* with an empty location, fails the run with a schema violation and no output
\* file is written; every element of every written output has a location that
\* is a non-empty structural path or UNKNOWN_STRUCTURE.
C28_SchemaViolationWritesNothing ==
    [](WrittenOutputsWellFormed) /\ [][DefectiveOutputRejected]_vars

\* A run refused an output whose first element has an empty location, after
\* an earlier run wrote the output of the same file; that output is still
\* there.
C28_Witness ==
    /\ parse.outcome = "SchemaViolation"
    /\ "elements" \in DOMAIN parse.rejected
    /\ "location" \in DOMAIN parse.rejected.elements[1]
    /\ parse.rejected.elements[1].location = <<"">>
    /\ parsed[parse.file].exists
    /\ parsed[parse.file].elements[1].location = <<"UNKNOWN_STRUCTURE">>

\* A run refused an output without its provenance.
C28_MissingFieldReached ==
    /\ parse.outcome = "SchemaViolation"
    /\ "provenance" \notin DOMAIN parse.rejected

\* ------------------------------------------------------------------ C29
\* C29: a validate run started on a manifest whose hash differs from the hash
\* the lockfile records does not score the response against that manifest and
\* does not end with success.
C29_ValidateChecksLockfile ==
    \A r \in Runs :
        val[r].lockMismatch => ~val[r].scored /\ val[r].exit # 0

\* ------------------------------------------------------------------ C30
\* C30: when the signature artifact exists and gpg is not installed, the
\* trust gate does not end the run and does not classify the manifest as
\* INVALID, whether or not the signature would verify: the state is UNSIGNED
\* and the run goes on with it; when gpg is installed and the verification
\* fails, the state is INVALID and the run ends there.
C30_UnavailableIsNotInvalid ==
    parse.trust # "none" =>
        /\ (parse.seen.artifact /\ ~parse.seen.gpg) =>
              /\ parse.trust = "UNSIGNED"
              /\ parse.sigStatus = "UNSIGNED"
              /\ parse.outcome # "TrustFailure"
              /\ parse.gates[1] = Gate("trust", FALSE)
        /\ (parse.seen.artifact /\ parse.seen.gpg /\ ~parse.seen.verifies) =>
              /\ parse.trust = "INVALID"
              /\ parse.pc = "failed" /\ parse.outcome = "TrustFailure"
              /\ parse.gates = <<Gate("trust", TRUE)>>

\* A signature that no longer matches the manifest, and no gpg: the run
\* passed the trust gate as UNSIGNED and wrote its output.
C30_Witness ==
    /\ parse.seen.artifact /\ ~parse.seen.gpg /\ ~parse.seen.verifies
    /\ parse.trust = "UNSIGNED"
    /\ parse.wrote
    /\ parsed[parse.file].provenance.manifest_signature = "UNSIGNED"

\* The same store with gpg installed: INVALID, and the run ended.
C30_InvalidReached ==
    /\ parse.seen.artifact /\ parse.seen.gpg /\ ~parse.seen.verifies
    /\ parse.trust = "INVALID"
    /\ parse.outcome = "TrustFailure"
    /\ parse.mode = "compliance"

\* ------------------------------------------------------------------ C31
\* Run r has ended and its file was there.
IngestEnded(r) == run[r].pc \in {"done", "failed"} /\ run[r].outcome # "FileNotFound"

\* C31: an ingest run that finds a manifest and no lockfile is a first run:
\* it passes the consistency check, appends its entry and writes a lockfile
\* that matches the resulting manifest; a run that finds a manifest and a
\* lockfile that cannot be parsed fails the check and leaves the store as it
\* was.
C31_NoLockfileIsFirstRun ==
    \A r \in Runs :
        (IngestEnded(r) /\ run[r].before.manifest.exists) =>
            /\ run[r].before.lock.state = "absent" =>
                  /\ run[r].pc = "done" /\ run[r].exit = 0
                  /\ Entries = Append(EntriesBefore(r), Entries[Len(Entries)])
                  /\ Entries[Len(Entries)].filename = run[r].file
                  /\ lock = [state |-> "ok", sha |-> get_manifest_sha256(manifest.bytes)]
            /\ run[r].before.lock.state = "corrupt" =>
                  /\ run[r].pc = "failed" /\ run[r].outcome = "IntegrityBreach"
                  /\ run[r].exit = 1
                  /\ Store = run[r].before

\* A run on a manifest of one entry whose lockfile had been deleted ended
\* with two entries and a matching lockfile.
C31_Witness ==
    \E r \in Runs :
        /\ run[r].pc = "done"
        /\ run[r].before.manifest.exists
        /\ run[r].before.lock.state = "absent"
        /\ Len(EntriesBefore(r)) = 1
        /\ Len(Entries) = 2
        /\ lock.state = "ok"

\* A run on a manifest with a damaged lockfile failed.
C31_CorruptReached ==
    \E r \in Runs :
        /\ run[r].pc = "failed" /\ run[r].outcome = "IntegrityBreach"
        /\ run[r].before.manifest.exists
        /\ run[r].before.lock.state = "corrupt"

\* ------------------------------------------------------------------ C32
\* The place of a detector in the registry.
RegistryIndex(pattern_name) ==
    CHOOSE i \in 1..Len(Registry) : Registry[i].pattern_name = pattern_name

\* C32: the matches scan_text returns are ordered by non-decreasing start,
\* two matches with one start stand in the order of their detectors in the
\* registry, and they are the hits of the text, each once.
C32_MatchesOrderedByStart ==
    sniff.pc = "done" =>
        LET ms == sniff.matches
        IN /\ \A i, j \in 1..Len(ms) :
                i < j =>
                   /\ ms[i].start <= ms[j].start
                   /\ ms[i].start = ms[j].start =>
                         RegistryIndex(ms[i].pattern_name) < RegistryIndex(ms[j].pattern_name)
           /\ Len(ms) = Cardinality(sniff.text.hits)
           /\ \A h \in sniff.text.hits :
                \E i \in 1..Len(ms) : ms[i] = PiiMatch(h[1], h[2])

\* An e-mail address and a phone number that start where the text starts and
\* an SSN after them: the SSN, found first, comes last, and the phone number
\* stands before the e-mail address.
C32_Witness ==
    /\ sniff.pc = "done"
    /\ Len(sniff.matches) = 3
    /\ sniff.matches[1] = PiiMatch(2, 0)
    /\ sniff.matches[2] = PiiMatch(3, 0)
    /\ sniff.matches[3] = PiiMatch(1, 1)

\* ------------------------------------------------------------------ C33
\* The places of the tokens of a sentence that trigger a signal.
Triggers(sentence, signal) ==
    CASE signal = "NNP" -> {i \in 2..Len(sentence) :
                               /\ sentence[i].kind = "capital"
                               /\ sentence[i].value \notin FunctionWords}
      [] signal = "CD" -> {i \in 1..Len(sentence) : sentence[i].kind = "number"}
      [] signal = "JJR" -> {i \in 1..Len(sentence) : sentence[i].kind = "comparative"}

\* The n-th member of a set of numbers, in ascending order.
Nth(set, n) == CHOOSE k \in set : Cardinality({j \in set : j < k}) = n - 1

\* The uncited claim sentences of run r, as places in ClaimsOf(r).
UncitedIn(r) == (1..Len(ClaimsOf(r))) \ CitedIn(r)

\* The fix-it records of run r are the uncited claim sentences, one record
\* each and in their order, each with the tokens that trigger its signals,
\* grouped by signal, at most limit of them for a signal; the counts add up.
FixItRecords(r, limit) ==
    LET result == val[r].density_result
        naked == result.naked_claims
    IN /\ Len(naked) = Cardinality(UncitedIn(r))
       /\ \A n \in 1..Len(naked) :
            LET sentence == ClaimsOf(r)[Nth(UncitedIn(r), n)]
                examples == naked[n].signal_examples
            IN /\ naked[n].sentence = sentence
               /\ ~naked[n].cited
               /\ DOMAIN examples =
                    {signal \in {"NNP", "CD", "JJR"} : Triggers(sentence, signal) # {}}
               /\ \A signal \in DOMAIN examples :
                    LET places == Triggers(sentence, signal)
                        listed == IF Cardinality(places) < limit
                                    THEN Cardinality(places) ELSE limit
                    IN /\ Len(examples[signal]) = listed
                       /\ \A i \in 1..listed :
                            examples[signal][i] = sentence[Nth(places, i)].value
       /\ Len(naked) + result.cited_count = result.factual_count
       /\ result.factual_count + result.non_factual_count = result.total_sentences
       /\ result.factual_count = Len(ClaimsOf(r))
       /\ result.total_sentences = Len(SentencesOf(r))

\* C33 as stated: every uncited claim sentence, and no other, has one fix-it
\* record with the sentence and all its triggering tokens grouped by signal
\* type, and the counts add up.
C33_FixItRecordsListAllTokens ==
    \A r \in Runs : val[r].scored => FixItRecords(r, Len(val[r].response_text))

\* C33, amended: the same with the record carrying the first three triggering
\* tokens of each signal type.
C33_FixItRecordsListThreeTokens ==
    \A r \in Runs : val[r].scored => FixItRecords(r, 3)

\* The uncited sentence with four numbers and two proper nouns: one record,
\* three of the numbers, both nouns.
C33_Witness ==
    \E r \in Runs :
        /\ val[r].scored
        /\ val[r].response_text = FourNumbers
        /\ Len(val[r].density_result.naked_claims) = 1
        /\ val[r].density_result.naked_claims[1].signal_examples =
             [signal \in {"NNP", "CD"} |->
                 IF signal = "CD" THEN <<"40", "2023", "five">>
                 ELSE <<"Illinois", "Medicaid">>]

\* A cited and an uncited claim sentence and a record for the uncited one only.
C33_OneOfTwoReached ==
    \E r \in Runs :
        /\ val[r].scored
        /\ val[r].density_result.factual_count = 2
        /\ val[r].density_result.cited_count = 1
        /\ Len(val[r].density_result.naked_claims) = 1

\* ------------------------------------------------------------------ C34
\* What the response of run r cites: the contents whose digests it spells,
\* and the file names.
CitedContents(r) ==
    {val[r].response_text[i].value : i \in TokensOf(r, "sha256")}
CitedNames(r) ==
    {val[r].response_text[i].value : i \in TokensOf(r, "filename")}

\* The place of a reported value in the sorted order of its type.
PlaceInOrder(item) ==
    IF item.type = "sha256"
      THEN CHOOSE k \in 1..Len(ContentOrder) : get_file_sha256(ContentOrder[k]) = item.value
      ELSE Len(ContentOrder)
           + (CHOOSE k \in 1..Len(NameOrder) : NameOrder[k] = item.value)

\* The hashes in ascending order, then the file names in ascending order.
HashesThenNames(list) ==
    \A i, j \in 1..Len(list) : i < j => PlaceInOrder(list[i]) < PlaceInOrder(list[j])

\* C34: two runs against one manifest whose responses cite the same hashes
\* and the same file names report identical verified and unverified lists,
\* whatever the order and the number of the citations in the text; in each
\* list the hashes come first, in sorted order, then the file names, in sorted
\* order.
C34_CitationsOrderInsensitive ==
    /\ \A r \in Runs :
         val[r].scored => HashesThenNames(val[r].verified)
                          /\ HashesThenNames(val[r].unverified)
    /\ \A r1, r2 \in Runs :
         (/\ val[r1].scored /\ val[r2].scored
          /\ CitedContents(r1) = CitedContents(r2)
          /\ CitedNames(r1) = CitedNames(r2))
            => /\ val[r1].verified = val[r2].verified
               /\ val[r1].unverified = val[r2].unverified

\* Two responses that cite two unknown hashes in opposite orders: one
\* unverified list of two hashes.
C34_Witness ==
    /\ val["r1"].scored /\ val["r2"].scored
    /\ val["r1"].response_text # val["r2"].response_text
    /\ CitedContents("r1") = {"v2", "fabricated"}
    /\ CitedContents("r2") = {"v2", "fabricated"}
    /\ Len(val["r2"].unverified) = 2
    /\ val["r1"].unverified = val["r2"].unverified

\* A file name cited before a hash, both unknown: the hash is reported first.
C34_NameBeforeHashReached ==
    \E r \in Runs :
        /\ val[r].scored
        /\ val[r].response_text[2].kind = "filename"
        /\ Len(val[r].unverified) = 2
        /\ val[r].unverified[1].type = "sha256"
        /\ val[r].unverified[2].type = "filename"

\* ------------------------------------------------------------------ C35
\* The parse run passed the trust gate.
PassedTrust == parse.outcome # "TrustFailure" /\ parse.gates[1] = Gate("trust", FALSE)
\* The parse run ended at the trust gate.
AbortedAtTrust == parse.pc = "failed" /\ parse.outcome = "TrustFailure"

\* The manifest was signed by an ingest run: gpg wrote its signature.
SignedByIngest == asc.exists

\* C35: once an ingest run has signed the manifest, a parse run on a manifest
\* that a later ingest run extended without signing classifies it INVALID and
\* aborts, in both modes; after an ingest run has signed again a parse run
\* that can run gpg goes on as SIGNED.
C35_StaleSignatureAlwaysInvalid ==
    (parse.trust # "none" /\ SignedByIngest) =>
        IF GpgVerifies(asc, manifest)
          THEN parse.seen.gpg => parse.trust = "SIGNED" /\ PassedTrust
          ELSE parse.trust = "INVALID" /\ AbortedAtTrust

\* ------------------------------------------------------------------ C36
\* The entries of the manifest that name the file of the parse run.
EntriesOfFile ==
    {i \in 1..Len(Entries) :
        Entries[i].filename = parse.file \/ Entries[i].source_path = parse.file}

\* C36: a parse run verifies its file against the first manifest entry that
\* names it: while the run holds an entry it is that one, and a run that
\* reached the hash gate failed there exactly when the hash of that entry
\* differs from the hash of the file, whatever a later entry records.
C36_ParseUsesFirstEntry ==
    /\ parse.pc \in {"hash", "pii", "schema"} =>
          /\ EntriesOfFile # {}
          /\ parse.entry = Entries[Nth(EntriesOfFile, 1)]
    /\ (Len(parse.gates) >= 3 /\ manifest.exists /\ EntriesOfFile # {}) =>
          (parse.gates[3] = Gate("hash", TRUE)
             <=> Entries[Nth(EntriesOfFile, 1)].sha256
                   # get_file_sha256(fileContent[parse.file]))
    /\ parse.gates = <<Gate("trust", FALSE), Gate("lookup", FALSE), Gate("hash", TRUE)>>
          => parse.pc = "failed" /\ parse.outcome = "ProvenanceBreach" /\ ~parse.wrote

\* a.pdf ingested, modified, ingested again and parsed: the second entry has
\* the hash of the file as it is, and the run halts with a provenance breach.
C36_Witness ==
    /\ Len(Entries) = 2
    /\ Entries = ingested
    /\ EntriesOfFile = {1, 2}
    /\ Entries[1].sha256 # Entries[2].sha256
    /\ Entries[2].sha256 = get_file_sha256(fileContent[parse.file])
    /\ parse.outcome = "ProvenanceBreach"
    /\ ~parsed[parse.file].exists

\* ------------------------------------------------------------------ C37
\* C37: an ingest run that finds a manifest edited out-of-band and no
\* lockfile passes the consistency check, appends its entry to the edited
\* manifest and writes a lockfile that matches it; and a run that finds a
\* lockfile matching the manifest passes the check whatever the manifest
\* holds, so the edit is not reported afterwards.
C37_RemovedLockfileHidesEdit ==
    \A r \in Runs :
        (IngestEnded(r) /\ run[r].before.manifest.exists) =>
            /\ (run[r].edited /\ run[r].before.lock.state = "absent") =>
                  /\ run[r].pc = "done" /\ run[r].outcome = "ok"
                  /\ Entries = Append(EntriesBefore(r), Entries[Len(Entries)])
                  /\ lock = [state |-> "ok", sha |-> get_manifest_sha256(manifest.bytes)]
            /\ (/\ run[r].before.lock.state = "ok"
                /\ run[r].before.lock.sha
                     = get_manifest_sha256(run[r].before.manifest.bytes)) =>
                  run[r].pc = "done" /\ run[r].outcome = "ok"

\* The hash of the first entry was edited and the lockfile removed; one
\* ingest run relocked the store and the next has passed the check and ended:
\* the manifest still holds the edited entry.
C37_Witness ==
    \E r \in Runs :
        /\ tampers = 2
        /\ completed = 3
        /\ run[r].pc = "done"
        /\ ~run[r].edited
        /\ run[r].before.lock.state = "ok"
        /\ Len(Entries) = 3
        /\ Entries[1] # ingested[1]
        /\ Entries[1].sha256 = get_file_sha256("v2")
        /\ lock = [state |-> "ok", sha |-> get_manifest_sha256(manifest.bytes)]

\* The relocking run has just ended.
C37_RelockedReached ==
    \E r \in Runs :
        /\ run[r].pc = "done"
        /\ run[r].edited
        /\ run[r].before.lock.state = "absent"
        /\ Entries[1] # ingested[1]

\* ------------------------------------------------------------------ C38
\* A step of a parse run: the record of the run changes and is not cleared.
ParseRunStep == parse' # parse /\ parse'.pc # "idle"
\* A step of a validate run.
ValidateRunStep == val' # val

\* C38: no step of a parse run or of a validate run changes the manifest, the
\* lockfile or the signature artifact, whatever the outcome of the run, and
\* no step of a parse run changes the audit log.
C38_ParseAndValidateLeaveLedger ==
    [][/\ (ParseRunStep \/ ValidateRunStep) => UNCHANGED <<manifest, lock, sig, asc>>
       /\ ParseRunStep => UNCHANGED audit]_vars

\* A parse run has quarantined its file after a validate run failed its
\* check and another was refused its threshold; the audit log holds the header
\* and one row, and the ledger is the one the ingest run left.
C38_Witness ==
    /\ parse.pc = "failed" /\ parse.outcome = "PrivacyRisk"
    /\ val["r1"].exit = 1 /\ val["r1"].pc = "failed"
    /\ val["r2"].exit = 2 /\ val["r2"].pc = "failed"
    /\ Len(audit.rows) = 2
    /\ manifest = [exists |-> TRUE, bytes |-> lastWritten]
    /\ LockMatchesManifest

\* A parse run has written its output.
C38_ParsedReached ==
    /\ parse.pc = "done" /\ parse.wrote
    /\ audit.exists
    /\ manifest = [exists |-> TRUE, bytes |-> lastWritten]

\* ------------------------------------------------------------------ C39
\* C39: when two validate runs that started on a missing audit log, in any
\* interleaving of their steps, have both appended and ended, the log holds
\* exactly one header, as its first row, and one data row for each run.
C39_ConcurrentRunsOneHeader ==
    (\A r \in Runs : val[r].pc \in Terminal /\ val[r].rowAt > 0) =>
        /\ HeaderRows(audit.rows) = {1}
        /\ Cardinality(DataRows(audit.rows)) = Cardinality(Runs)

\* ------------------------------------------------------------------ C40
\* A run that has ended without reaching the scoring step ended with status 2
\* and has no row in the log; a run that has ended after scoring ended with
\* status 0 or 1 and its data row is in the log.
RowsFollowScoring ==
    \A r \in Runs :
        val[r].pc \in {"done", "failed"} =>
            /\ val[r].exit = 2 <=> ~val[r].scored
            /\ ~val[r].scored => val[r].rowAt = 0
            /\ val[r].scored =>
                 /\ val[r].rowAt \in DataRows(audit.rows)
                 /\ val[r].exit \in {0, 1}

\* A step of a run that has not scored leaves the audit log as it is.
UnscoredStepLeavesLog ==
    \A r \in Runs : (val'[r] # val[r] /\ ~val'[r].scored) => UNCHANGED audit

\* C40: a validate run that exits 2 (threshold out of range, input file
\* missing, manifest missing), draft or not, appends no row and leaves the
\* audit log unchanged; every run that reaches the scoring step has appended
\* its row when it exits.
C40_ExitTwoLeavesLogScoredRunAppends ==
    [](RowsFollowScoring) /\ [][UnscoredStepLeavesLog]_vars

\* After a run that scored and appended its row, a draft run was refused its
\* threshold: the log still holds the header and that one row.
C40_Witness ==
    /\ val["r1"].scored /\ val["r1"].pc \in {"done", "failed"} /\ val["r1"].rowAt = 2
    /\ val["r2"].draft /\ val["r2"].exit = 2 /\ val["r2"].rowAt = 0
    /\ Len(audit.rows) = 2

\* A draft run found no manifest and exited 2 with no audit log written.
C40_ManifestMissingReached ==
    \E r \in Runs :
        /\ val[r].draft /\ val[r].exit = 2
        /\ val[r].response_text # <<>>
        /\ ~manifest.exists
        /\ ~audit.exists

\* A run found no response file and exited 2.
C40_InputMissingReached ==
    \E r \in Runs :
        /\ val[r].exit = 2
        /\ val[r].threshold \in 0..100
        /\ ~response.exists

====
